---- MODULE Spec2Model ----
(***************************************************************************)
(* AURA16: a 16-bit MIPS-like five-stage pipeline simulator.               *)
(* Model of simulator/cpu.py (class MIPS_CPU) and of the encoder part of   *)
(* simulator/assembler.py.  A CPU object is a record; every method is an   *)
(* operator from CPU records to CPU records, computed as the code does.    *)
(***************************************************************************)
EXTENDS Integers, Sequences, FiniteSets, TLC

VARIABLES pc, registers, instruction_memory, data_memory, cycle,
          IF_ID, ID_EX, EX_MEM, MEM_WB, stall, halted,
          forward_a, forward_b, stall_info, memory_warning, control_hazard,
          flush_occurred, if_id_was_held,
          pipeline_history, stall_history, forward_history, flush_count,
          seen_in_if, seen_in_wb,
          source, asm_error,
          calls, idle_calls, raised, taken_transfers

vars == <<pc, registers, instruction_memory, data_memory, cycle,
          IF_ID, ID_EX, EX_MEM, MEM_WB, stall, halted,
          forward_a, forward_b, stall_info, memory_warning, control_hazard,
          flush_occurred, if_id_was_held,
          pipeline_history, stall_history, forward_history, flush_count,
          seen_in_if, seen_in_wb,
          source, asm_error,
          calls, idle_calls, raised, taken_transfers>>

----------------------------------------------------------------------------
(* Bounds of the model. *)

\* longest program drawn from the general instruction alphabet
MaxLen == 2
\* length of the programs drawn from the hazard alphabet
MaxCoreLen == 3
\* step() calls followed after a restore from JSON
MaxRestoredSteps == 3
\* step() calls that run a cycle, per program
MaxCycle == 16
\* step() calls the host still makes once the CPU is halted or has raised
MaxIdleCalls == 2
\* longest loop of a run, in cycles, that is looked for
MaxPeriod == 4

\* Latest cycle in which the host asks for a run to the end.
MaxRunAllStart == 2

----------------------------------------------------------------------------
(* Python values. *)

\* Python's None, and an Optional value v, as sequences of length 0 and 1.
None == <<>>
Some(v) == <<v>>

\* x & 0xFFFF on a Python int of either sign.
Mask16(x) == x % 65536

RECURSIVE BitAndNat(_, _, _)
BitAndNat(a, b, n) ==
    IF n = 0 THEN 0
    ELSE ((a % 2) * (b % 2)) + 2 * BitAndNat(a \div 2, b \div 2, n - 1)

\* Python's a & b on unbounded two's-complement ints with |a|, |b| < 2^17.
BitAnd(a, b) ==
    LET w == 262144
        r == BitAndNat(a % w, b % w, 18)
    IN IF r >= 131072 THEN r - w ELSE r

\* Python's a | b, by De Morgan on the same width: a | b = a + b - (a & b).
BitOr(a, b) == a + b - BitAnd(a, b)

\* format(code, '04X') and int(s, 16): a hex string is its four digits.
ToHex(code) == <<(code \div 4096) % 16, (code \div 256) % 16,
                 (code \div 16) % 16, code % 16>>
FromHex(s) == s[1] * 4096 + s[2] * 256 + s[3] * 16 + s[4]

----------------------------------------------------------------------------
(* assembler.py: encoders. *)

encode_r_type(rs, rt, rd, funct) ==
    (0 * 4096) + (rs * 512) + (rt * 64) + (rd * 8) + funct

encode_i_type(opcode, rs, rt, imm) ==
    (opcode * 4096) + (rs * 512) + (rt * 64) + (imm % 64)

encode_j_type(opcode, address) ==
    (opcode * 4096) + (address % 4096)

----------------------------------------------------------------------------
(* assembler.py: operand parsers and the two-pass assembler.  A source line  *)
(* is the output of tokenize_line: an optional label, an optional mnemonic   *)
(* and the operand strings, with a flag `blank` for a line of the text that  *)
(* holds white space only.  An operand string is one of                      *)
(*   <<"reg", n>>      "$rn"            <<"num", v>>     a decimal literal   *)
(*   <<"id", name>>    an identifier    <<"mem", v, n>>  "v($rn)"            *)

\* The outcome of a parser or encoder: a value, or the AssemblerError message.
Ok(v) == [ok |-> TRUE, val |-> v, error |-> "none"]
Err(kind) == [ok |-> FALSE, val |-> 0, error |-> kind]

\* The range of a signed immediate of `bits` bits.
imm_in_range(value, bits) == value >= -(2 ^ (bits - 1)) /\ value <= (2 ^ (bits - 1)) - 1

\* parse_register
parse_register(operand) ==
    IF operand[1] = "reg" /\ operand[2] \in 0..7 THEN Ok(operand[2])
    ELSE Err("Invalid register")

\* parse_immediate of the literal value v (range check, two's complement).
parse_immediate_value(v, bits) ==
    IF ~imm_in_range(v, bits) THEN Err("Immediate value out of range")
    ELSE Ok((IF v < 0 THEN (2 ^ bits) + v ELSE v) % (2 ^ bits))

\* parse_immediate
parse_immediate(operand, bits) ==
    IF operand[1] = "num" THEN parse_immediate_value(operand[2], bits)
    ELSE Err("Invalid immediate value")

\* The first failure among parsed operands, else the word built from them.
all_ok(results, word) ==
    IF \E i \in 1..Len(results) : ~results[i].ok
    THEN results[CHOOSE i \in 1..Len(results) :
                    ~results[i].ok /\ \A j \in 1..(i - 1) : results[j].ok]
    ELSE Ok(word)

R_TYPE_FUNCT == [ADD |-> 0, SUB |-> 1, AND |-> 2, OR |-> 3, SLT |-> 4, JR |-> 5]

I_TYPE_OPCODES == [LW |-> 1, SW |-> 2, ADDI |-> 3, SUBI |-> 4, SLTI |-> 5,
                   BEQ |-> 6, BNQ |-> 7, ANDI |-> 8]

J_TYPE_OPCODES == [JUMP |-> 9, JAL |-> 10]

\* encode_instruction, R-type branch.
encode_r(instruction, operands) ==
    IF instruction = "JR"
    THEN IF Len(operands) # 1 THEN Err("JR requires 1 operand")
         ELSE LET rs == parse_register(operands[1])
              IN all_ok(<<rs>>, encode_r_type(rs.val, 0, 0, R_TYPE_FUNCT[instruction]))
    ELSE IF Len(operands) # 3 THEN Err("requires 3 operands")
         ELSE LET rd == parse_register(operands[1])
                  rs == parse_register(operands[2])
                  rt == parse_register(operands[3])
              IN all_ok(<<rd, rs, rt>>,
                        encode_r_type(rs.val, rt.val, rd.val, R_TYPE_FUNCT[instruction]))

\* encode_instruction, LW/SW.
encode_mem(instruction, operands) ==
    IF Len(operands) = 2
    THEN LET rt == parse_register(operands[1])
         IN IF ~rt.ok THEN rt
            ELSE IF operands[2][1] # "mem" THEN Err("Invalid memory operand format")
            ELSE LET imm == parse_immediate_value(operands[2][2], 6)
                     rs == parse_register(<<"reg", operands[2][3]>>)
                 IN all_ok(<<imm, rs>>,
                           encode_i_type(I_TYPE_OPCODES[instruction], rs.val, rt.val,
                                         imm.val))
    ELSE IF Len(operands) = 3
    THEN LET rt == parse_register(operands[1])
             rs == parse_register(operands[2])
             imm == parse_immediate(operands[3], 6)
         IN all_ok(<<rt, rs, imm>>,
                   encode_i_type(I_TYPE_OPCODES[instruction], rs.val, rt.val, imm.val))
    ELSE Err("requires 2-3 operands")

\* A branch offset counted from the branch itself.
branch_offset_from_branch(target, labels, current_addr) ==
    IF target[1] = "id" /\ target[2] \in DOMAIN labels
    THEN labels[target[2]] - current_addr
    ELSE IF target[1] = "num" THEN target[2]
    ELSE 0

\* The branch offset: label-relative, else the literal, else 0 for any other text.
branch_offset(target, labels, current_addr) ==
    IF target[1] = "id" /\ target[2] \in DOMAIN labels
    THEN labels[target[2]] - (current_addr + 1)
    ELSE IF target[1] = "num" THEN target[2]
    ELSE 0

\* encode_instruction, BEQ/BNQ.
encode_branch(instruction, operands, labels, current_addr) ==
    IF Len(operands) # 3 THEN Err("requires 3 operands")
    ELSE LET rs == parse_register(operands[1])
             rt == parse_register(operands[2])
             imm == parse_immediate_value(branch_offset(operands[3], labels, current_addr), 6)
         IN all_ok(<<rs, rt, imm>>,
                   encode_i_type(I_TYPE_OPCODES[instruction], rs.val, rt.val, imm.val))

\* encode_instruction, ADDI/SUBI/SLTI/ANDI.
encode_imm(instruction, operands) ==
    IF Len(operands) # 3 THEN Err("requires 3 operands")
    ELSE LET rt == parse_register(operands[1])
             rs == parse_register(operands[2])
             imm == parse_immediate(operands[3], 6)
         IN all_ok(<<rt, rs, imm>>,
                   encode_i_type(I_TYPE_OPCODES[instruction], rs.val, rt.val, imm.val))

\* encode_instruction, JUMP/JAL.
encode_jump(instruction, operands, labels) ==
    IF Len(operands) # 1 THEN Err("requires 1 operand")
    ELSE LET target == operands[1]
             known == target[1] = "id" /\ target[2] \in DOMAIN labels
             address == IF known THEN labels[target[2]] ELSE target[2]
         IN IF ~known /\ target[1] # "num" THEN Err("Undefined label or invalid address")
            ELSE IF address < 0 \/ address > 4095 THEN Err("Jump address out of range")
            ELSE Ok(encode_j_type(J_TYPE_OPCODES[instruction], address))

\* encode_instruction
encode_instruction(instruction, operands, labels, current_addr) ==
    IF instruction \in DOMAIN R_TYPE_FUNCT THEN encode_r(instruction, operands)
    ELSE IF instruction \in {"LW", "SW"} THEN encode_mem(instruction, operands)
    ELSE IF instruction \in {"BEQ", "BNQ"}
    THEN encode_branch(instruction, operands, labels, current_addr)
    ELSE IF instruction \in DOMAIN I_TYPE_OPCODES THEN encode_imm(instruction, operands)
    ELSE IF instruction \in DOMAIN J_TYPE_OPCODES THEN encode_jump(instruction, operands, labels)
    ELSE Err("Unknown instruction")

\* First pass: the address of line i is the number of instructions before it.
line_addr(lines, i) == Cardinality({j \in 1..(i - 1) : lines[j].instruction # None})

duplicate_label_lines(lines) ==
    {i \in 1..Len(lines) : /\ lines[i].label # None
                           /\ \E j \in 1..(i - 1) : lines[j].label = lines[i].label}

label_table(lines) ==
    LET names == {lines[i].label[1] : i \in {j \in 1..Len(lines) : lines[j].label # None}}
    IN [n \in names |->
           line_addr(lines, CHOOSE i \in 1..Len(lines) :
                                /\ lines[i].label = Some(n)
                                /\ \A j \in 1..(i - 1) : lines[j].label # Some(n))]

\* Second pass, one line: the encoding of line i (an instruction line).
encode_line(lines, labels, i) ==
    encode_instruction(lines[i].instruction[1], lines[i].operands, labels,
                       line_addr(lines, i))

failing_lines(lines, labels) ==
    {i \in 1..Len(lines) : lines[i].instruction # None /\ ~encode_line(lines, labels, i).ok}

RECURSIVE emit(_, _, _)
emit(lines, labels, i) ==
    IF i > Len(lines) THEN <<>>
    ELSE IF lines[i].instruction = None THEN emit(lines, labels, i + 1)
    ELSE <<ToHex(encode_line(lines, labels, i).val)>> \o emit(lines, labels, i + 1)

Min(S) == CHOOSE x \in S : \A y \in S : x <= y

\* The result of both passes once the label table is known.
second_pass(lines, labels, failing) ==
    IF failing # {}
    THEN [ok |-> FALSE, machine_codes |-> <<>>, labels |-> <<>>,
          error |-> encode_line(lines, labels, Min(failing)).error,
          line_num |-> Min(failing)]
    ELSE [ok |-> TRUE, machine_codes |-> emit(lines, labels, 1), labels |-> labels,
          error |-> "none", line_num |-> 0]

assemble_with(lines, labels) == second_pass(lines, labels, failing_lines(lines, labels))

\* Both passes over the lines assemble() numbers from 1.
assemble_lines(lines) ==
    IF duplicate_label_lines(lines) # {}
    THEN [ok |-> FALSE, machine_codes |-> <<>>, labels |-> <<>>,
          error |-> "Duplicate label", line_num |-> Min(duplicate_label_lines(lines))]
    ELSE assemble_with(lines, label_table(lines))

\* A line of white space only, as tokenize_line returns it.
Blank == [label |-> None, instruction |-> None, operands |-> <<>>, blank |-> TRUE]

\* code.strip().split('\n'): the lines of the text without the blank lines at
\* its start and at its end; one blank line when nothing else is left.
strip_lines(code) ==
    LET inked == {i \in 1..Len(code) : ~code[i].blank}
    IN IF inked = {} THEN <<Blank>>
       ELSE SubSeq(code, Min(inked), CHOOSE i \in inked : \A j \in inked : j <= i)

\* assemble: the machine code and label table, or the error with its line.
assemble(code) == assemble_lines(strip_lines(code))

----------------------------------------------------------------------------
(* cpu.py: the four pipeline latches. *)

empty_if_id == [instruction |-> None, pc |-> 0, valid |-> FALSE]

empty_id_ex ==
    [instruction |-> None, pc |-> 0, opcode |-> 0, rs |-> 0, rt |-> 0, rd |-> 0,
     funct |-> 0, imm |-> 0, address |-> 0, rs_val |-> 0, rt_val |-> 0,
     reg_write |-> FALSE, mem_read |-> FALSE, mem_write |-> FALSE,
     mem_to_reg |-> FALSE, branch |-> FALSE, jump |-> FALSE,
     alu_op |-> "NOP", valid |-> FALSE]

empty_ex_mem ==
    [instruction |-> None, pc |-> 0, alu_result |-> 0, rt_val |-> 0, rd |-> 0,
     reg_write |-> FALSE, mem_read |-> FALSE, mem_write |-> FALSE,
     mem_to_reg |-> FALSE, valid |-> FALSE]

empty_mem_wb ==
    [instruction |-> None, pc |-> 0, alu_result |-> 0, mem_data |-> 0, rd |-> 0,
     reg_write |-> FALSE, mem_to_reg |-> FALSE, valid |-> FALSE]

----------------------------------------------------------------------------
(* cpu.py: ALU helpers. *)

alu_add(a, b) == Mask16(a + b)

alu_sub(a, b) == Mask16(a - b)

\* val & 0x8000 tests bit 15 of the two's-complement value.
signed(val) == IF (val % 65536) >= 32768 THEN val - 65536 ELSE val

----------------------------------------------------------------------------
(* cpu.py: write-back, memory and execute stages. *)

\* A write-back that does not protect register 0.
wb_writes_any_register(mem_wb) == mem_wb.valid /\ mem_wb.reg_write

\* The guard of the register write in _stage_wb.
wb_writes(mem_wb) == mem_wb.valid /\ mem_wb.reg_write /\ mem_wb.rd # 0

\* The value a MEM/WB latch writes back (also the value it forwards).
wb_data(mem_wb) == IF mem_wb.mem_to_reg THEN mem_wb.mem_data ELSE mem_wb.alu_result

\* A write-back that does not mask the value to 16 bits.
stage_wb_unmasked(regs, mem_wb) ==
    IF mem_wb.valid /\ mem_wb.reg_write /\ mem_wb.rd # 0
    THEN [regs EXCEPT ![mem_wb.rd] = IF mem_wb.mem_to_reg THEN mem_wb.mem_data
                                     ELSE mem_wb.alu_result]
    ELSE regs

\* _stage_wb: the register file after write-back of mem_wb.
stage_wb(regs, mem_wb) ==
    IF wb_writes(mem_wb)
    THEN [regs EXCEPT ![mem_wb.rd] = Mask16(wb_data(mem_wb))]
    ELSE regs

\* data_memory.get(addr, 0)
\* A data memory whose reads never see a stored word.
mem_get_never_stored(dm, addr) == 0

\* A data memory whose unwritten words read as all ones.
mem_get_unwritten_ones(dm, addr) == IF addr \in DOMAIN dm THEN dm[addr] ELSE 65535

mem_get(dm, addr) == IF addr \in DOMAIN dm THEN dm[addr] ELSE 0

\* self.data_memory[addr] = v
mem_put(dm, addr, v) == [a \in (DOMAIN dm) \cup {addr} |-> IF a = addr THEN v ELSE dm[a]]

\* The value a store writes to data memory.
store_value(ex_mem) == Mask16(ex_mem.rt_val)

\* A memory stage that lets an instruction with nothing left to do (a branch,
\* a jump) fall out of the pipeline.
stage_mem_drops_idle(c, ex_mem) ==
    IF ~ex_mem.valid \/ (~ex_mem.reg_write /\ ~ex_mem.mem_read /\ ~ex_mem.mem_write)
    THEN [result |-> empty_mem_wb, data_memory |-> c.data_memory,
          memory_warning |-> c.memory_warning]
    ELSE LET addr == Mask16(ex_mem.alu_result)
             base == [instruction |-> ex_mem.instruction, pc |-> ex_mem.pc,
                      alu_result |-> ex_mem.alu_result, mem_data |-> 0,
                      rd |-> ex_mem.rd, reg_write |-> ex_mem.reg_write,
                      mem_to_reg |-> ex_mem.mem_to_reg, valid |-> TRUE]
         IN IF ex_mem.mem_read
            THEN [result |-> [base EXCEPT !.mem_data = mem_get(c.data_memory, addr)],
                  data_memory |-> c.data_memory,
                  memory_warning |->
                      IF addr \notin DOMAIN c.data_memory
                      THEN Some([type |-> "Uninitialized Memory", address |-> addr,
                                 instruction |-> ex_mem.instruction])
                      ELSE c.memory_warning]
            ELSE IF ex_mem.mem_write
            THEN [result |-> base,
                  data_memory |-> mem_put(c.data_memory, addr, store_value(ex_mem)),
                  memory_warning |-> c.memory_warning]
            ELSE [result |-> base, data_memory |-> c.data_memory,
                  memory_warning |-> c.memory_warning]

\* _stage_mem: the new MEM/WB latch, the data memory and the warning record.
stage_mem(c, ex_mem) ==
    IF ~ex_mem.valid
    THEN [result |-> empty_mem_wb, data_memory |-> c.data_memory,
          memory_warning |-> c.memory_warning]
    ELSE LET addr == Mask16(ex_mem.alu_result)
             base == [instruction |-> ex_mem.instruction, pc |-> ex_mem.pc,
                      alu_result |-> ex_mem.alu_result, mem_data |-> 0,
                      rd |-> ex_mem.rd, reg_write |-> ex_mem.reg_write,
                      mem_to_reg |-> ex_mem.mem_to_reg, valid |-> TRUE]
         IN IF ex_mem.mem_read
            THEN [result |-> [base EXCEPT !.mem_data = mem_get(c.data_memory, addr)],
                  data_memory |-> c.data_memory,
                  memory_warning |->
                      IF addr \notin DOMAIN c.data_memory
                      THEN Some([type |-> "Uninitialized Memory", address |-> addr,
                                 instruction |-> ex_mem.instruction])
                      ELSE c.memory_warning]
            ELSE IF ex_mem.mem_write
            THEN [result |-> base,
                  data_memory |-> mem_put(c.data_memory, addr, store_value(ex_mem)),
                  memory_warning |-> c.memory_warning]
            ELSE [result |-> base, data_memory |-> c.data_memory,
                  memory_warning |-> c.memory_warning]

\* The forwarding guards of _stage_ex.
\* A MEM/WB latch that is never forwarded from.
mem_wb_never_forwards(mem_wb) == FALSE

ex_mem_forwards(ex_mem) == ex_mem.valid /\ ex_mem.reg_write /\ ex_mem.rd # 0

mem_wb_forwards(mem_wb) == mem_wb.valid /\ mem_wb.reg_write /\ mem_wb.rd # 0

\* Forwarding that prefers the older MEM/WB result to the EX/MEM result.
forward_operand_oldest_first(x, v, ex_mem, mem_wb) ==
    IF mem_wb.valid /\ mem_wb.reg_write /\ mem_wb.rd # 0 /\ x = mem_wb.rd
    THEN [val |-> IF mem_wb.mem_to_reg THEN mem_wb.mem_data ELSE mem_wb.alu_result,
          fwd |-> Some([source |-> "MEM_WB", reg |-> mem_wb.rd,
                        value |-> IF mem_wb.mem_to_reg THEN mem_wb.mem_data
                                  ELSE mem_wb.alu_result])]
    ELSE IF ex_mem.valid /\ ex_mem.reg_write /\ ex_mem.rd # 0 /\ x = ex_mem.rd
    THEN [val |-> ex_mem.alu_result,
          fwd |-> Some([source |-> "EX_MEM", reg |-> ex_mem.rd,
                        value |-> ex_mem.alu_result])]
    ELSE [val |-> v, fwd |-> None]

\* Forwarding that takes the ALU result of MEM/WB even behind a load.
forward_operand_alu_result_only(x, v, ex_mem, mem_wb) ==
    IF ex_mem.valid /\ ex_mem.reg_write /\ ex_mem.rd # 0 /\ x = ex_mem.rd
    THEN [val |-> ex_mem.alu_result,
          fwd |-> Some([source |-> "EX_MEM", reg |-> ex_mem.rd,
                        value |-> ex_mem.alu_result])]
    ELSE IF mem_wb.valid /\ mem_wb.reg_write /\ mem_wb.rd # 0 /\ x = mem_wb.rd
    THEN [val |-> mem_wb.alu_result,
          fwd |-> Some([source |-> "MEM_WB", reg |-> mem_wb.rd,
                        value |-> mem_wb.alu_result])]
    ELSE [val |-> v, fwd |-> None]

\* The forwarding record and operand value of one source register x whose
\* decode-time value is v: EX/MEM first, then MEM/WB, else the latched value.
forward_operand(x, v, ex_mem, mem_wb) ==
    IF ex_mem_forwards(ex_mem) /\ x = ex_mem.rd
    THEN [val |-> ex_mem.alu_result,
          fwd |-> Some([source |-> "EX_MEM", reg |-> ex_mem.rd,
                        value |-> ex_mem.alu_result])]
    ELSE IF mem_wb_forwards(mem_wb) /\ x = mem_wb.rd
    THEN [val |-> wb_data(mem_wb),
          fwd |-> Some([source |-> "MEM_WB", reg |-> mem_wb.rd,
                        value |-> wb_data(mem_wb)])]
    ELSE [val |-> v, fwd |-> None]

\* An ALU whose SLT and SLTI compare the operands as unsigned.
alu_unsigned_compare(alu_op, rs_val, rt_val, imm, latched_rs_val) ==
    CASE alu_op = "ADD"  -> alu_add(rs_val, rt_val)
      [] alu_op = "SUB"  -> alu_sub(rs_val, rt_val)
      [] alu_op = "AND"  -> BitAnd(rs_val, rt_val)
      [] alu_op = "OR"   -> BitOr(rs_val, rt_val)
      [] alu_op = "SLT"  -> IF rs_val < rt_val THEN 1 ELSE 0
      [] alu_op = "ADDI" -> alu_add(rs_val, imm)
      [] alu_op = "SUBI" -> alu_sub(rs_val, imm)
      [] alu_op = "SLTI" -> IF rs_val < imm THEN 1 ELSE 0
      [] alu_op = "ANDI" -> BitAnd(rs_val, imm % 64)
      [] alu_op = "JAL"  -> latched_rs_val
      [] OTHER -> 0

\* The ALU of _stage_ex.
alu(alu_op, rs_val, rt_val, imm, latched_rs_val) ==
    CASE alu_op = "ADD"  -> alu_add(rs_val, rt_val)
      [] alu_op = "SUB"  -> alu_sub(rs_val, rt_val)
      [] alu_op = "AND"  -> BitAnd(rs_val, rt_val)
      [] alu_op = "OR"   -> BitOr(rs_val, rt_val)
      [] alu_op = "SLT"  -> IF signed(rs_val) < signed(rt_val) THEN 1 ELSE 0
      [] alu_op = "ADDI" -> alu_add(rs_val, imm)
      [] alu_op = "SUBI" -> alu_sub(rs_val, imm)
      [] alu_op = "SLTI" -> IF signed(rs_val) < imm THEN 1 ELSE 0
      [] alu_op = "ANDI" -> BitAnd(rs_val, imm % 64)
      [] alu_op = "JAL"  -> latched_rs_val
      [] OTHER -> 0

\* _stage_ex: the new EX/MEM latch and the two forwarding records.
stage_ex(c, id_ex, ex_mem, mem_wb) ==
    IF ~id_ex.valid
    THEN [result |-> empty_ex_mem, forward_a |-> c.forward_a, forward_b |-> c.forward_b]
    ELSE LET a == forward_operand(id_ex.rs, id_ex.rs_val, ex_mem, mem_wb)
             b == forward_operand(id_ex.rt, id_ex.rt_val, ex_mem, mem_wb)
         IN [result |->
                [instruction |-> id_ex.instruction, pc |-> id_ex.pc,
                 alu_result |-> alu(id_ex.alu_op, a.val, b.val, id_ex.imm, id_ex.rs_val),
                 rt_val |-> b.val, rd |-> id_ex.rd, reg_write |-> id_ex.reg_write,
                 mem_read |-> id_ex.mem_read, mem_write |-> id_ex.mem_write,
                 mem_to_reg |-> id_ex.mem_to_reg, valid |-> TRUE],
             forward_a |-> IF a.fwd # None THEN a.fwd ELSE c.forward_a,
             forward_b |-> IF b.fwd # None THEN b.fwd ELSE c.forward_b]

----------------------------------------------------------------------------
(* cpu.py: fetch. *)

\* instruction_memory[pc] raises IndexError for pc < -len(instruction_memory).
fetch_raises(c) == c.pc < -Len(c.instruction_memory)

\* Python list indexing: a negative index counts from the end of the list.
list_get(lst, i) == IF i >= 0 THEN lst[i + 1] ELSE lst[Len(lst) + i + 1]

\* _stage_if: the new IF/ID latch and the program counter after the fetch.
stage_if(c) ==
    IF c.pc < Len(c.instruction_memory)
    THEN [result |-> [instruction |-> list_get(c.instruction_memory, c.pc),
                      pc |-> c.pc, valid |-> TRUE],
          pc |-> c.pc + 1]
    ELSE [result |-> empty_if_id, pc |-> c.pc]

----------------------------------------------------------------------------
(* cpu.py: decode, branch resolution and hazard detection. *)

\* Sign extension of the 6-bit immediate field.
sign_extend6(imm) == IF imm >= 32 THEN imm - 64 ELSE imm

\* Decode that reads the register file only.
id_forward_from_registers(c, x, new_ex_mem) == c.registers[x]

\* Decode-time forwarding that misses the EX result of the same cycle.
id_forward_without_ex_result(c, x, new_ex_mem) ==
    IF c.EX_MEM.valid /\ c.EX_MEM.reg_write /\ c.EX_MEM.rd # 0 /\ x = c.EX_MEM.rd
    THEN c.EX_MEM.alu_result
    ELSE IF c.MEM_WB.valid /\ c.MEM_WB.reg_write /\ c.MEM_WB.rd # 0 /\ x = c.MEM_WB.rd
    THEN (IF c.MEM_WB.mem_to_reg THEN c.MEM_WB.mem_data ELSE c.MEM_WB.alu_result)
    ELSE c.registers[x]

\* Decode-time forwarding that prefers the old EX/MEM latch to the EX result
\* of the same cycle.
id_forward_old_latch_first(c, x, new_ex_mem) ==
    IF c.EX_MEM.valid /\ c.EX_MEM.reg_write /\ c.EX_MEM.rd # 0 /\ x = c.EX_MEM.rd
    THEN c.EX_MEM.alu_result
    ELSE IF new_ex_mem.valid /\ new_ex_mem.reg_write /\ new_ex_mem.rd # 0
            /\ x = new_ex_mem.rd
    THEN new_ex_mem.alu_result
    ELSE IF c.MEM_WB.valid /\ c.MEM_WB.reg_write /\ c.MEM_WB.rd # 0 /\ x = c.MEM_WB.rd
    THEN (IF c.MEM_WB.mem_to_reg THEN c.MEM_WB.mem_data ELSE c.MEM_WB.alu_result)
    ELSE c.registers[x]

\* The value decode uses for register x of a branch or JR: the register file,
\* overridden by MEM/WB, then by EX/MEM, then by the EX result of this cycle.
id_forward(c, x, new_ex_mem) ==
    IF ex_mem_forwards(new_ex_mem) /\ x = new_ex_mem.rd THEN new_ex_mem.alu_result
    ELSE IF ex_mem_forwards(c.EX_MEM) /\ x = c.EX_MEM.rd THEN c.EX_MEM.alu_result
    ELSE IF mem_wb_forwards(c.MEM_WB) /\ x = c.MEM_WB.rd THEN wb_data(c.MEM_WB)
    ELSE c.registers[x]

\* A load-use test that also stalls a store on its rt.
load_use_hazard_any_rt(c, result) ==
    /\ c.ID_EX.valid /\ c.ID_EX.mem_read
    /\ \/ result.rs = c.ID_EX.rd /\ c.ID_EX.rd # 0
       \/ result.rt = c.ID_EX.rd /\ c.ID_EX.rd # 0

\* "Stall case 1": a load in EX whose rd is the rs, or (unless the decoded
\* instruction is a store) the rt, of the decoded instruction.
load_use_hazard(c, result) ==
    /\ c.ID_EX.valid /\ c.ID_EX.mem_read
    /\ \/ result.rs = c.ID_EX.rd /\ c.ID_EX.rd # 0
       \/ result.rt = c.ID_EX.rd /\ c.ID_EX.rd # 0 /\ ~result.mem_write

load_use_info(c, result) ==
    [type |-> "Load-Use Hazard", waiting_reg |-> c.ID_EX.rd, waiting_for |-> "LW",
     blocked_instr |-> "instruction",
     hazard_reg |-> IF result.rs = c.ID_EX.rd THEN "rs" ELSE "rt"]

\* Hazard detection without "stall case 2".
load_branch_hazard_never(c, result) == FALSE

\* "Stall case 2" kept up until the load has left write-back.
load_branch_hazard_until_write_back(c, result) ==
    /\ (result.branch \/ result.jump)
    /\ \/ /\ c.EX_MEM.valid /\ c.EX_MEM.mem_to_reg /\ c.EX_MEM.rd # 0
          /\ (result.rs = c.EX_MEM.rd \/ result.rt = c.EX_MEM.rd)
       \/ /\ c.MEM_WB.valid /\ c.MEM_WB.mem_to_reg /\ c.MEM_WB.rd # 0
          /\ (result.rs = c.MEM_WB.rd \/ result.rt = c.MEM_WB.rd)

\* "Stall case 2": a load in MEM whose rd is the rs or rt of a branch or jump.
load_branch_hazard(c, result) ==
    /\ c.EX_MEM.valid /\ c.EX_MEM.mem_to_reg
    /\ (result.branch \/ result.jump) /\ c.EX_MEM.rd # 0
    /\ (result.rs = c.EX_MEM.rd \/ result.rt = c.EX_MEM.rd)

load_branch_info(c) ==
    [type |-> "Load-Use Hazard (Branch)", waiting_reg |-> c.EX_MEM.rd,
     waiting_for |-> "LW in MEM stage", blocked_instr |-> "Branch/Jump",
     hazard_reg |-> "rd"]

\* JR only: a load in EX that writes rs.
jr_load_hazard(c, rs) ==
    c.ID_EX.valid /\ c.ID_EX.mem_read /\ c.ID_EX.rd = rs /\ rs # 0

\* A JR that does not wait for the instruction in EX.
jr_raw_hazard_never(c, rs) == FALSE

\* JR only: any instruction in EX that writes rs.
jr_raw_hazard(c, rs) ==
    c.ID_EX.valid /\ c.ID_EX.reg_write /\ c.ID_EX.rd = rs /\ rs # 0

jr_info(kind, rs) ==
    [type |-> kind, waiting_reg |-> rs, waiting_for |-> "instruction",
     blocked_instr |-> "JR", hazard_reg |-> "rs"]

\* The tail of _stage_id (the two load-use checks) for a decoded `result`.
id_hazards(c, result, branch_taken, jump_target) ==
    LET h1 == load_use_hazard(c, result)
        h2 == load_branch_hazard(c, result)
    IN [result |-> result, branch_taken |-> branch_taken, jump_target |-> jump_target,
        stall |-> c.stall \/ h1 \/ h2,
        stall_info |-> IF h2 THEN Some(load_branch_info(c))
                       ELSE IF h1 THEN Some(load_use_info(c, result))
                       ELSE c.stall_info]

\* Whether BEQ/BNQ with operand values a, b is taken.
branch_condition(opcode, a, b) == IF opcode = 6 THEN a = b ELSE a # b

\* The control signals and ALU operation of an I-type opcode.
i_type_controls(base, opcode) ==
    CASE opcode = 1 -> [base EXCEPT !.mem_read = TRUE, !.mem_to_reg = TRUE,
                                    !.reg_write = TRUE, !.alu_op = "ADDI"]
      [] opcode = 2 -> [base EXCEPT !.mem_write = TRUE, !.alu_op = "ADDI"]
      [] opcode = 3 -> [base EXCEPT !.reg_write = TRUE, !.alu_op = "ADDI"]
      [] opcode = 4 -> [base EXCEPT !.reg_write = TRUE, !.alu_op = "SUBI"]
      [] opcode = 5 -> [base EXCEPT !.reg_write = TRUE, !.alu_op = "SLTI"]
      [] opcode = 6 -> [base EXCEPT !.branch = TRUE, !.alu_op = "BEQ"]
      [] opcode = 7 -> [base EXCEPT !.branch = TRUE, !.alu_op = "BNQ"]
      [] opcode = 8 -> [base EXCEPT !.reg_write = TRUE, !.alu_op = "ANDI"]
      [] OTHER -> base

\* _stage_id.  c holds the registers after this cycle's write-back and the
\* latches as they were before the cycle; new_ex_mem is this cycle's EX result.
stage_id(c, if_id, new_ex_mem) ==
    IF ~if_id.valid \/ if_id.instruction = None
    THEN [result |-> empty_id_ex, branch_taken |-> FALSE, jump_target |-> None,
          stall |-> c.stall, stall_info |-> c.stall_info]
    ELSE
    LET code == FromHex(if_id.instruction)
        opcode == (code \div 4096) % 16
        rs == (code \div 512) % 8
        rt == (code \div 64) % 8
        head == [empty_id_ex EXCEPT !.instruction = if_id.instruction,
                                    !.pc = if_id.pc, !.valid = TRUE,
                                    !.opcode = opcode]
    IN
    IF opcode = 0
    THEN LET rd == (code \div 8) % 8
             funct == code % 8
             base == [head EXCEPT !.rs = rs, !.rt = rt, !.rd = rd, !.funct = funct,
                                  !.rs_val = c.registers[rs],
                                  !.rt_val = c.registers[rt]]
         IN IF funct = 5
            THEN LET jr == [base EXCEPT !.jump = TRUE, !.alu_op = "JR"]
                 IN IF jr_load_hazard(c, rs)
                    THEN [result |-> jr, branch_taken |-> FALSE, jump_target |-> None,
                          stall |-> TRUE,
                          stall_info |-> Some(jr_info("Load-Use Hazard (JR)", rs))]
                    ELSE IF jr_raw_hazard(c, rs)
                    THEN [result |-> jr, branch_taken |-> FALSE, jump_target |-> None,
                          stall |-> TRUE,
                          stall_info |-> Some(jr_info("Data Hazard (JR)", rs))]
                    ELSE id_hazards(c, jr, FALSE, Some(id_forward(c, rs, new_ex_mem)))
            ELSE IF funct < 5
            THEN id_hazards(c, [base EXCEPT !.reg_write = TRUE,
                                   !.alu_op = <<"ADD", "SUB", "AND", "OR", "SLT">>[funct + 1]],
                            FALSE, None)
            ELSE id_hazards(c, base, FALSE, None)
    ELSE IF opcode \in {9, 10}
    THEN LET address == code % 4096
             base == [head EXCEPT !.address = address, !.jump = TRUE]
         IN IF opcode = 9
            THEN id_hazards(c, [base EXCEPT !.alu_op = "JUMP"], FALSE, Some(address))
            ELSE id_hazards(c, [base EXCEPT !.alu_op = "JAL", !.reg_write = TRUE,
                                            !.rd = 7, !.rs_val = if_id.pc + 1],
                            FALSE, Some(address))
    ELSE LET imm == sign_extend6(code % 64)
             base == [head EXCEPT !.rs = rs, !.rt = rt, !.rd = rt, !.imm = imm,
                                  !.rs_val = c.registers[rs],
                                  !.rt_val = c.registers[rt]]
             taken == /\ opcode \in {6, 7}
                      /\ branch_condition(opcode, id_forward(c, rs, new_ex_mem),
                                          id_forward(c, rt, new_ex_mem))
         IN id_hazards(c, i_type_controls(base, opcode), taken,
                       IF taken THEN Some(if_id.pc + 1 + imm) ELSE None)

----------------------------------------------------------------------------
(* assembler.py: the disassembler, its output string as a token list. *)

\* disassemble(hex_code): "ADD $r3, $r1, $r2" is <<"ADD", 3, 1, 2>>.
disassemble(hex_code) ==
    LET code == FromHex(hex_code)
        opcode == (code \div 4096) % 16
        rs == (code \div 512) % 8
        rt == (code \div 64) % 8
    IN IF opcode = 0
       THEN LET rd == (code \div 8) % 8
                funct == code % 8
                instr == IF funct \in 0..5
                         THEN <<"ADD", "SUB", "AND", "OR", "SLT", "JR">>[funct + 1]
                         ELSE "???"
            IN IF instr = "JR" THEN <<"JR", rs>> ELSE <<instr, rd, rs, rt>>
       ELSE IF opcode \in {9, 10}
       THEN <<IF opcode = 9 THEN "JUMP" ELSE "JAL", code % 4096>>
       ELSE LET imm == sign_extend6(code % 64)
                instr == IF opcode \in 1..8
                         THEN <<"LW", "SW", "ADDI", "SUBI", "SLTI", "BEQ", "BNQ",
                                "ANDI">>[opcode]
                         ELSE "???"
            IN IF instr \in {"LW", "SW"} THEN <<instr, rt, imm, rs>>
               ELSE IF instr \in {"BEQ", "BNQ"} THEN <<instr, rs, rt, imm>>
               ELSE <<instr, rt, rs, imm>>

----------------------------------------------------------------------------
(* assembler.py: the text of a disassembled instruction and its way back     *)
(* through tokenize_line.  A text is the sequence of its characters, with    *)
(* the mnemonic kept as one word.                                            *)

Digits == <<"0", "1", "2", "3", "4", "5", "6", "7", "8", "9">>

\* str(k) and int(s) for a non-negative int: the decimal digits of k.
RECURSIVE str(_)
str(k) == IF k < 10 THEN <<k>> ELSE Append(str(k \div 10), k % 10)

RECURSIVE int(_)
int(s) == IF Len(s) = 1 THEN s[1]
          ELSE 10 * int(SubSeq(s, 1, Len(s) - 1)) + s[Len(s)]

\* A number written without its sign.
str_unsigned(v) ==
    LET k == IF v < 0 THEN -v ELSE v
    IN [i \in 1..Len(str(k)) |-> Digits[str(k)[i] + 1]]

\* f"{v}" for an int v: a minus sign for a negative v, then the digits.
str_int(v) == IF v < 0 THEN <<"-">> \o str_unsigned(v) ELSE str_unsigned(v)

\* f"$r{n}"
str_reg(n) == <<"$", "r", Digits[n + 1]>>

\* The string disassemble() builds from the decoded fields d of an R-type or
\* another word.
format_disasm(d, r_type) ==
    IF d[1] = "JR" THEN <<"JR", " ">> \o str_reg(d[2])
    ELSE IF d[1] \in {"JUMP", "JAL"} THEN <<d[1], " ">> \o str_int(d[2])
    ELSE IF d[1] \in {"LW", "SW"}
    THEN <<d[1], " ">> \o str_reg(d[2]) \o <<",", " ">> \o str_int(d[3])
                      \o <<"(">> \o str_reg(d[4]) \o <<")">>
    ELSE IF r_type
    THEN <<d[1], " ">> \o str_reg(d[2]) \o <<",", " ">> \o str_reg(d[3])
                      \o <<",", " ">> \o str_reg(d[4])
    ELSE <<d[1], " ">> \o str_reg(d[2]) \o <<",", " ">> \o str_reg(d[3])
                      \o <<",", " ">> \o str_int(d[4])

\* disassemble(hex_code), as text.
disassemble_text(hex_code) ==
    format_disasm(disassemble(hex_code), (FromHex(hex_code) \div 4096) % 16 = 0)

\* s.index(ch) + 1, or 0 when ch is not in s.
index(s, ch) ==
    IF \E i \in 1..Len(s) : s[i] = ch THEN Min({i \in 1..Len(s) : s[i] = ch}) ELSE 0

\* s.strip()
strip(s) ==
    LET inked == {i \in 1..Len(s) : s[i] # " "}
    IN IF inked = {} THEN <<>>
       ELSE SubSeq(s, Min(inked), CHOOSE i \in inked : \A j \in inked : j <= i)

\* [part.strip() for part in s.split(',')]
RECURSIVE split_operands(_)
split_operands(s) ==
    IF index(s, ",") = 0 THEN <<strip(s)>>
    ELSE <<strip(SubSeq(s, 1, index(s, ",") - 1))>>
             \o split_operands(SubSeq(s, index(s, ",") + 1, Len(s)))

\* The text in front of a '#' or '//' comment.
uncommented(line) ==
    LET marks == {i \in 1..Len(line) :
                     \/ line[i] = "#"
                     \/ i < Len(line) /\ line[i] = "/" /\ line[i + 1] = "/"}
    IN IF marks = {} THEN line ELSE SubSeq(line, 1, Min(marks) - 1)

\* Whether s is written as -?[0-9]+, and the int it then stands for.
is_number(s) ==
    /\ s # <<>>
    /\ \A i \in 1..Len(s) : s[i] \in {Digits[k] : k \in 1..10} \/ (i = 1 /\ s[i] = "-")
    /\ s # <<"-">>
number(s) ==
    IF s[1] = "-" THEN -int([i \in 1..(Len(s) - 1) |-> index(Digits, s[i + 1]) - 1])
    ELSE int([i \in 1..Len(s) |-> index(Digits, s[i]) - 1])

\* Whether s is written as \$?r[0-9] in either case, as the keys of REGISTERS
\* and the memory operand's pattern are.
is_register(s) ==
    /\ Len(s) \in {2, 3}
    /\ Len(s) = 3 => s[1] = "$"
    /\ s[Len(s) - 1] \in {"r", "R"}
    /\ s[Len(s)] \in {Digits[k] : k \in 1..10}

\* The number n of a register written as s.
register_number(s) == index(Digits, s[Len(s)]) - 1

\* An operand string as the parsers read it: a register name, a decimal
\* literal, a memory operand "v($rn)", or any other text.
operand(s) ==
    LET open == index(s, "(")
        close == index(s, ")")
    IN IF is_register(s) THEN <<"reg", register_number(s)>>
       ELSE IF is_number(s) THEN <<"num", number(s)>>
       ELSE IF /\ open > 1 /\ close > open
               /\ is_number(strip(SubSeq(s, 1, open - 1)))
               /\ s[1] # " "
               /\ is_register(strip(SubSeq(s, open + 1, close - 1)))
       THEN <<"mem", number(strip(SubSeq(s, 1, open - 1))),
              register_number(strip(SubSeq(s, open + 1, close - 1)))>>
       ELSE <<"id", s>>

\* tokenize_line(line): the label, the mnemonic and the operand strings.
tokenize_line(line) ==
    LET text == strip(uncommented(line))
        colon == index(text, ":")
        rest == IF colon = 0 THEN text ELSE strip(SubSeq(text, colon + 1, Len(text)))
        space == index(rest, " ")
    IN [label |-> IF colon = 0 THEN None ELSE Some(strip(SubSeq(text, 1, colon - 1))),
        instruction |-> IF rest = <<>> THEN None ELSE Some(rest[1]),
        operands |-> IF space = 0 THEN <<>>
                     ELSE [i \in 1..Len(split_operands(SubSeq(rest, space + 1, Len(rest)))) |->
                              operand(split_operands(SubSeq(rest, space + 1, Len(rest)))[i])],
        blank |-> strip(line) = <<>>]

----------------------------------------------------------------------------
(* cpu.py: MIPS_CPU.step. *)

\* The per-cycle records cleared at the top of step().
clear_records(c) ==
    [c EXCEPT !.forward_a = None, !.forward_b = None, !.stall_info = None,
              !.memory_warning = None, !.control_hazard = None,
              !.flush_occurred = FALSE]

\* The CPU once write-back, memory and execute have run on the old latches:
\* their side effects on registers, data memory and the per-cycle records.
after_ex(c0, m, e) ==
    [c0 EXCEPT !.registers = stage_wb(c0.registers, c0.MEM_WB),
               !.data_memory = m.data_memory,
               !.memory_warning = m.memory_warning,
               !.forward_a = e.forward_a, !.forward_b = e.forward_b]

\* The CPU once decode has run too, with the values step() holds in locals.
after_id(c1, m, e, d) ==
    [cpu |-> [c1 EXCEPT !.stall = d.stall, !.stall_info = d.stall_info],
     new_MEM_WB |-> m.result, new_EX_MEM |-> e.result, new_ID_EX |-> d.result,
     branch_taken |-> d.branch_taken, jump_target |-> d.jump_target]

decode_after(c1, m, e) == after_id(c1, m, e, stage_id(c1, c1.IF_ID, e.result))

stages_after(c0, m, e) == decode_after(after_ex(c0, m, e), m, e)

run_stages(c0) ==
    stages_after(c0, stage_mem(c0, c0.EX_MEM),
                 stage_ex(c0, c0.ID_EX, c0.EX_MEM, c0.MEM_WB))

\* The CPU at the point where step() calls _stage_if: write-back, memory,
\* execute and decode have run on the old latches and left their side effects.
before_fetch(c) == run_stages(clear_records(c))

\* The test that makes step() flush: a taken branch or any jump target.
flush_condition(branch_taken, jump_target) == branch_taken \/ jump_target # None

\* A stall that leaves the program counter on the held instruction.
stall_pc_on_held(old_IF_ID) == old_IF_ID.pc

\* The program counter a stall leaves behind.
stall_pc(old_IF_ID) == old_IF_ID.pc + 1

\* A halt test that waits for the PC to pass the end of instruction memory.
pipeline_empty_past_end(c) ==
    /\ ~c.IF_ID.valid /\ ~c.ID_EX.valid /\ ~c.EX_MEM.valid /\ ~c.MEM_WB.valid
    /\ c.pc > Len(c.instruction_memory)

\* A halt test that does not wait for the instruction in MEM/WB.
pipeline_empty_before_write_back(c) ==
    /\ ~c.IF_ID.valid /\ ~c.ID_EX.valid /\ ~c.EX_MEM.valid
    /\ c.pc >= Len(c.instruction_memory)

\* A halt test that wants PC exactly at the end of the program.
pipeline_empty_at_the_end(c) ==
    /\ ~c.IF_ID.valid /\ ~c.ID_EX.valid /\ ~c.EX_MEM.valid /\ ~c.MEM_WB.valid
    /\ c.pc = Len(c.instruction_memory)

\* The halt test at the end of step().
pipeline_empty(c) ==
    /\ ~c.IF_ID.valid /\ ~c.ID_EX.valid /\ ~c.EX_MEM.valid /\ ~c.MEM_WB.valid
    /\ c.pc >= Len(c.instruction_memory)

set_halted(c) == [c EXCEPT !.halted = pipeline_empty(c)]

\* The cycle counter after a cycle.
next_cycle(n) == n + 1

\* The control_hazard record of a flush.
hazard_record(b, f) ==
    Some([type |-> IF b.branch_taken THEN "Branch" ELSE "Jump",
          flushed_instruction |->
              IF f.result.instruction # None
              THEN disassemble(f.result.instruction) ELSE <<"NOP">>,
          target_address |-> b.jump_target])

\* The record step() appends to pipeline_history.
cycle_snapshot(c2, b, old_IF_ID, old_MEM_WB, new_IF_ID, new_ID_EX, stall_occurred) ==
    LET id_stage_instr_for_timeline ==
            IF b.new_ID_EX.valid THEN b.new_ID_EX.instruction ELSE None
        if_new == /\ new_IF_ID.instruction # None
                  /\ <<new_IF_ID.pc, new_IF_ID.instruction>> \notin c2.seen_in_if
        wb_new == /\ old_MEM_WB.valid /\ old_MEM_WB.instruction # None
                  /\ <<old_MEM_WB.pc, old_MEM_WB.instruction>> \notin c2.seen_in_wb
    IN [cycle |-> next_cycle(c2.cycle),
        IF_instr |-> IF if_new THEN new_IF_ID.instruction ELSE None,
        IF_PC |-> IF if_new THEN Some(new_IF_ID.pc) ELSE None,
        ID_instr |-> IF stall_occurred THEN old_IF_ID.instruction
                     ELSE IF id_stage_instr_for_timeline # None
                     THEN id_stage_instr_for_timeline
                     ELSE new_ID_EX.instruction,
        ID_PC |-> IF stall_occurred \/ id_stage_instr_for_timeline # None
                  THEN old_IF_ID.pc ELSE new_ID_EX.pc,
        EX_instr |-> b.new_EX_MEM.instruction, EX_PC |-> b.new_EX_MEM.pc,
        MEM_instr |-> b.new_MEM_WB.instruction, MEM_PC |-> b.new_MEM_WB.pc,
        WB_instr |-> IF wb_new THEN old_MEM_WB.instruction ELSE None,
        WB_PC |-> IF wb_new THEN Some(old_MEM_WB.pc) ELSE None]

\* "Seen" sets that never grow.
seen_add_nothing(seen, latch, shown) == seen

\* The two "seen" sets after a cycle.
seen_add(seen, latch, shown) ==
    IF shown # None THEN seen \cup {<<latch.pc, latch.instruction>>} ELSE seen

\* The rest of step() after the five stages: flush, stall, commit, histories.
commit(c2, b, f, old_IF_ID, old_MEM_WB, flush, stall_occurred, new_IF_ID, new_ID_EX, snap) ==
    [c2 EXCEPT !.control_hazard = IF flush THEN hazard_record(b, f)
                                  ELSE c2.control_hazard,
               !.flush_occurred = flush \/ c2.flush_occurred,
               !.flush_count = IF flush THEN c2.flush_count + 1 ELSE c2.flush_count,
               !.pc = IF stall_occurred THEN stall_pc(old_IF_ID)
                      ELSE IF flush /\ b.jump_target # None THEN b.jump_target[1]
                      ELSE f.pc,
               !.stall = FALSE,
               !.if_id_was_held = stall_occurred,
               !.IF_ID = new_IF_ID, !.ID_EX = new_ID_EX,
               !.EX_MEM = b.new_EX_MEM, !.MEM_WB = b.new_MEM_WB,
               !.cycle = next_cycle(c2.cycle),
               !.seen_in_if = seen_add(c2.seen_in_if, new_IF_ID, snap.IF_instr),
               !.seen_in_wb = seen_add(c2.seen_in_wb, old_MEM_WB, snap.WB_instr),
               !.pipeline_history = Append(c2.pipeline_history, snap),
               !.stall_history =
                   IF stall_occurred \/ (~new_ID_EX.valid /\ old_IF_ID.valid)
                   THEN Append(c2.stall_history, next_cycle(c2.cycle))
                   ELSE c2.stall_history,
               !.forward_history =
                   IF c2.forward_a # None \/ c2.forward_b # None
                   THEN Append(c2.forward_history,
                               [cycle |-> next_cycle(c2.cycle),
                                forward_a |-> c2.forward_a,
                                forward_b |-> c2.forward_b])
                   ELSE c2.forward_history]

\* The latches step() commits: a flush empties the fetched IF/ID, a stall holds
\* the old IF/ID and puts a bubble into ID/EX.
commit_latches(c2, b, f, old_IF_ID, old_MEM_WB, flush, stall_occurred, new_IF_ID, new_ID_EX) ==
    commit(c2, b, f, old_IF_ID, old_MEM_WB, flush, stall_occurred, new_IF_ID, new_ID_EX,
           cycle_snapshot(c2, b, old_IF_ID, old_MEM_WB, new_IF_ID, new_ID_EX,
                          stall_occurred))

new_if_id(f, old_IF_ID, flush, stall_occurred) ==
    IF stall_occurred THEN old_IF_ID ELSE IF flush THEN empty_if_id ELSE f.result

new_id_ex(b, stall_occurred) == IF stall_occurred THEN empty_id_ex ELSE b.new_ID_EX

resolve(c2, b, f, old_IF_ID, old_MEM_WB, flush, stall_occurred) ==
    commit_latches(c2, b, f, old_IF_ID, old_MEM_WB, flush, stall_occurred,
                   new_if_id(f, old_IF_ID, flush, stall_occurred),
                   new_id_ex(b, stall_occurred))

fetch_and_commit(c, b) ==
    set_halted(resolve(b.cpu, b, stage_if(b.cpu), c.IF_ID, c.MEM_WB,
                       flush_condition(b.branch_taken, b.jump_target), b.cpu.stall))

\* step() for a CPU that is not halted and whose fetch does not raise.
run_cycle(c) == fetch_and_commit(c, before_fetch(c))

\* A step() that counts a cycle on a halted CPU before it returns.
step_counting_halted(c) ==
    IF c.halted THEN [c EXCEPT !.cycle = c.cycle + 1]
    ELSE IF fetch_raises(c) THEN before_fetch(c).cpu
    ELSE run_cycle(c)

\* A step() without the early return of a halted CPU.
step_ignoring_halted(c) ==
    IF fetch_raises(c) THEN before_fetch(c).cpu ELSE run_cycle(c)

\* step(): the CPU after the call.  A halted CPU returns at once; a fetch that
\* raises IndexError leaves the side effects of the four earlier stages behind.
step(c) ==
    IF c.halted THEN c
    ELSE IF fetch_raises(c) THEN before_fetch(c).cpu
    ELSE run_cycle(c)

\* step()'s return value, for a call that returns.
step_returns(c) == ~step(c).halted

----------------------------------------------------------------------------
(* cpu.py: reset, load_program, get_state, to_json, from_json. *)

\* reset(): every field of a fresh CPU; the instruction memory is emptied too.
reset_cpu ==
    [pc |-> 0, registers |-> [r \in 0..7 |-> 0], instruction_memory |-> <<>>,
     data_memory |-> <<>>, cycle |-> 0,
     IF_ID |-> empty_if_id, ID_EX |-> empty_id_ex,
     EX_MEM |-> empty_ex_mem, MEM_WB |-> empty_mem_wb,
     stall |-> FALSE, halted |-> FALSE,
     forward_a |-> None, forward_b |-> None, stall_info |-> None,
     memory_warning |-> None, control_hazard |-> None,
     flush_occurred |-> FALSE, if_id_was_held |-> FALSE,
     pipeline_history |-> <<>>, stall_history |-> <<>>, forward_history |-> <<>>,
     flush_count |-> 0, seen_in_if |-> {}, seen_in_wb |-> {}]

\* load_program(machine_codes)
load_program(machine_codes) == [reset_cpu EXCEPT !.instruction_memory = machine_codes]

\* {str(k): v for k, v in data_memory.items()}
str_keys(dm) ==
    LET keys == {str(k) : k \in DOMAIN dm}
    IN [s \in keys |-> dm[CHOOSE k \in DOMAIN dm : str(k) = s]]

\* {int(k): v for k, v in state['data_memory'].items()}
int_keys(jm) ==
    LET keys == {int(s) : s \in DOMAIN jm}
    IN [k \in keys |-> jm[CHOOSE s \in DOMAIN jm : int(s) = k]]

\* _pipeline_stage_display's disasm entry for a latch.
stage_disasm(stage) ==
    IF stage.instruction # None THEN disassemble(stage.instruction) ELSE <<"NOP">>

\* get_state(): the snapshot (the display rates are functions of the counts
\* in `performance` and are left out).
get_state(c) ==
    [pc |-> c.pc, cycle |-> c.cycle, registers |-> c.registers,
     data_memory |-> str_keys(c.data_memory),
     instruction_memory |-> c.instruction_memory,
     IF_ID |-> <<c.IF_ID, stage_disasm(c.IF_ID)>>,
     ID_EX |-> <<c.ID_EX, stage_disasm(c.ID_EX)>>,
     EX_MEM |-> <<c.EX_MEM, stage_disasm(c.EX_MEM)>>,
     MEM_WB |-> <<c.MEM_WB, stage_disasm(c.MEM_WB)>>,
     halted |-> c.halted,
     forward_a |-> c.forward_a, forward_b |-> c.forward_b,
     stall_info |-> c.stall_info, memory_warning |-> c.memory_warning,
     control_hazard |-> c.control_hazard, flush_occurred |-> c.flush_occurred,
     pipeline_history |-> c.pipeline_history, stall_history |-> c.stall_history,
     forward_history |-> c.forward_history, is_stalling |-> c.stall,
     performance |-> [cycles |-> c.cycle, instructions |-> Cardinality(c.seen_in_wb),
                      stall_cycles |-> Len(c.stall_history),
                      forward_cycles |-> Len(c.forward_history),
                      flush_count |-> c.flush_count]]

\* to_json(): the serialized fields (the two sets become lists of lists, whose
\* order Python leaves open).
to_json(c) ==
    [pc |-> c.pc, cycle |-> c.cycle, registers |-> c.registers,
     data_memory |-> str_keys(c.data_memory),
     instruction_memory |-> c.instruction_memory,
     IF_ID |-> c.IF_ID, ID_EX |-> c.ID_EX, EX_MEM |-> c.EX_MEM, MEM_WB |-> c.MEM_WB,
     halted |-> c.halted, stall |-> c.stall,
     pipeline_history |-> c.pipeline_history, stall_history |-> c.stall_history,
     forward_history |-> c.forward_history, flush_count |-> c.flush_count,
     seen_in_if |-> c.seen_in_if, seen_in_wb |-> c.seen_in_wb]

\* A from_json() that restores neither flush_count nor the two seen sets.
from_json_without_counts(state) ==
    [reset_cpu EXCEPT
        !.pc = state.pc, !.cycle = state.cycle, !.registers = state.registers,
        !.data_memory = int_keys(state.data_memory),
        !.instruction_memory = state.instruction_memory,
        !.IF_ID = state.IF_ID, !.ID_EX = state.ID_EX,
        !.EX_MEM = state.EX_MEM, !.MEM_WB = state.MEM_WB,
        !.halted = state.halted, !.stall = state.stall,
        !.pipeline_history = state.pipeline_history,
        !.stall_history = state.stall_history,
        !.forward_history = state.forward_history]

\* from_json(): a fresh CPU (cls() runs reset()) with the serialized fields set.
from_json(state) ==
    [reset_cpu EXCEPT
        !.pc = state.pc, !.cycle = state.cycle, !.registers = state.registers,
        !.data_memory = int_keys(state.data_memory),
        !.instruction_memory = state.instruction_memory,
        !.IF_ID = state.IF_ID, !.ID_EX = state.ID_EX,
        !.EX_MEM = state.EX_MEM, !.MEM_WB = state.MEM_WB,
        !.halted = state.halted, !.stall = state.stall,
        !.pipeline_history = state.pipeline_history,
        !.stall_history = state.stall_history,
        !.forward_history = state.forward_history,
        !.seen_in_if = state.seen_in_if, !.seen_in_wb = state.seen_in_wb,
        !.flush_count = state.flush_count]

----------------------------------------------------------------------------
(* Programs. *)

\* Mnemonic-level constructors over the encoders of assembler.py.
R(funct, rd, rs, rt) == ToHex(encode_r_type(rs, rt, rd, funct))
I(opcode, rt, rs, imm) == ToHex(encode_i_type(opcode, rs, rt, imm))
B(opcode, rs, rt, imm) == ToHex(encode_i_type(opcode, rs, rt, imm))
J(opcode, address) == ToHex(encode_j_type(opcode, address))

\* The instruction alphabet of the general programs: every instruction class,
\* writes to register 0, dependent loads, stores, branches in both directions
\* (one of them far before the start of the program), jumps, JR and words
\* that are no instruction.
Alphabet ==
    { I(3, 1, 0, 5),      \* ADDI $r1, $r0, 5
      I(3, 2, 0, -1),     \* ADDI $r2, $r0, -1
      R(0, 1, 1, 2),      \* ADD  $r1, $r1, $r2
      R(4, 2, 2, 1),      \* SLT  $r2, $r2, $r1
      I(3, 0, 1, 3),      \* ADDI $r0, $r1, 3
      I(1, 1, 0, 1),      \* LW   $r1, 1($r0)
      I(1, 2, 1, 0),      \* LW   $r2, 0($r1)
      I(2, 1, 0, 1),      \* SW   $r1, 1($r0)
      I(2, 2, 1, 0),      \* SW   $r2, 0($r1)
      B(6, 1, 0, 1),      \* BEQ  $r1, $r0, 1
      B(7, 1, 2, -2),     \* BNQ  $r1, $r2, -2
      B(6, 0, 0, -5),     \* BEQ  $r0, $r0, -5
      J(10, 2),           \* JAL  2
      R(5, 0, 7, 0),      \* JR   $r7
      R(5, 0, 1, 0),      \* JR   $r1
      R(6, 1, 1, 1) }     \* opcode 0000, funct 110

RECURSIVE ProgramsOfLen(_)
ProgramsOfLen(n) ==
    IF n = 0 THEN {<<>>}
    ELSE {Append(p, w) : p \in ProgramsOfLen(n - 1), w \in Alphabet}

GeneralPrograms == UNION {ProgramsOfLen(n) : n \in 0..MaxLen}

\* The hazard alphabet: producers, a load, a store, both branches, call and
\* return, for the longer programs in which hazards chain.
CoreAlphabet ==
    { I(3, 1, 0, 5),      \* ADDI $r1, $r0, 5
      I(3, 2, 0, -1),     \* ADDI $r2, $r0, -1
      R(0, 1, 1, 2),      \* ADD  $r1, $r1, $r2
      I(1, 1, 0, 1),      \* LW   $r1, 1($r0)
      I(2, 1, 0, 1),      \* SW   $r1, 1($r0)
      B(6, 1, 0, 1),      \* BEQ  $r1, $r0, 1
      B(7, 1, 2, -2),     \* BNQ  $r1, $r2, -2
      J(10, 2),           \* JAL  2
      R(5, 0, 7, 0) }     \* JR   $r7

RECURSIVE CoreProgramsOfLen(_)
CoreProgramsOfLen(n) ==
    IF n = 0 THEN {<<>>}
    ELSE {Append(p, w) : p \in CoreProgramsOfLen(n - 1), w \in CoreAlphabet}

\* A taken backward branch to one and to two words before address 0, with a
\* JAL in the word that the negative PC then fetches.
WrappedCallPrograms ==
    { << I(3, 1, 0, 1), B(7, 1, 0, -3), J(10, 5) >>,
      << I(3, 1, 0, 1), B(7, 1, 0, -4), J(10, 5), I(3, 0, 0, 0) >> }

\* Machine code the host loads directly.
Programs == GeneralPrograms \cup CoreProgramsOfLen(MaxCoreLen) \cup WrappedCallPrograms

\* Source lines, as tokenize_line returns them.
Line(label, instruction, operands) ==
    [label |-> label, instruction |-> Some(instruction), operands |-> operands,
     blank |-> FALSE]
\* A line that holds a comment only.
Comment == [label |-> None, instruction |-> None, operands |-> <<>>, blank |-> FALSE]
Reg(n) == <<"reg", n>>
Num(v) == <<"num", v>>
Id(name) == <<"id", name>>

\* ADDI $r1,$r0,a ; ADDI $r2,$r0,b ; BEQ $r1,$r2,TGT ; ADDI $r4,$r0,v4 ;
\* TGT: ADDI $r5,$r0,v5
BranchScenario(a, b, v4, v5) ==
    << Line(None, "ADDI", <<Reg(1), Reg(0), Num(a)>>),
       Line(None, "ADDI", <<Reg(2), Reg(0), Num(b)>>),
       Line(None, "BEQ", <<Reg(1), Reg(2), Id("TGT")>>),
       Line(None, "ADDI", <<Reg(4), Reg(0), Num(v4)>>),
       Line(Some("TGT"), "ADDI", <<Reg(5), Reg(0), Num(v5)>>) >>

\* LW $r1,$r0,0 ; BEQ|BNQ $r1,$r0,TGT ; TGT: ADDI $r2,$r0,9
LoadBranchScenario(branch) ==
    << Line(None, "LW", <<Reg(1), Reg(0), Num(0)>>),
       Line(None, branch, <<Reg(1), Reg(0), Id("TGT")>>),
       Line(Some("TGT"), "ADDI", <<Reg(2), Reg(0), Num(9)>>) >>

\* ADDI $r3,$r0,v ; SW $r3,$r0,2 ; LW $r1,$r0,2 ; BEQ|BNQ $r1,$r0,TGT ;
\* ADDI $r4,$r0,7 ; TGT: ADDI $r2,$r0,9
StoredLoadBranchScenario(branch, v) ==
    << Line(None, "ADDI", <<Reg(3), Reg(0), Num(v)>>),
       Line(None, "SW", <<Reg(3), Reg(0), Num(2)>>),
       Line(None, "LW", <<Reg(1), Reg(0), Num(2)>>),
       Line(None, branch, <<Reg(1), Reg(0), Id("TGT")>>),
       Line(None, "ADDI", <<Reg(4), Reg(0), Num(7)>>),
       Line(Some("TGT"), "ADDI", <<Reg(2), Reg(0), Num(9)>>) >>

\* ADDI $r1,$r0,5 ; SW $r1,$r0,0 ; LW $r0,$r0,0 ; ADD $r0,$r1,$r1
ZeroRegisterScenario ==
    << Line(None, "ADDI", <<Reg(1), Reg(0), Num(5)>>),
       Line(None, "SW", <<Reg(1), Reg(0), Num(0)>>),
       Line(None, "LW", <<Reg(0), Reg(0), Num(0)>>),
       Line(None, "ADD", <<Reg(0), Reg(1), Reg(1)>>) >>

\* ADDI $r1,$r0,a ; ADDI $r2,$r0,b ; ADD $r3,$r1,$r2
AddScenario(a, b) ==
    << Line(None, "ADDI", <<Reg(1), Reg(0), Num(a)>>),
       Line(None, "ADDI", <<Reg(2), Reg(0), Num(b)>>),
       Line(None, "ADD", <<Reg(3), Reg(1), Reg(2)>>) >>

\* ADDI $r1,$r0,v ; SW $r1,$r0,a ; LW $r2,$r0,a ; ADD $r3,$r2,$r1
StoreLoadScenario(v, a) ==
    << Line(None, "ADDI", <<Reg(1), Reg(0), Num(v)>>),
       Line(None, "SW", <<Reg(1), Reg(0), Num(a)>>),
       Line(None, "LW", <<Reg(2), Reg(0), Num(a)>>),
       Line(None, "ADD", <<Reg(3), Reg(2), Reg(1)>>) >>

\* ADDI $r7,$r0,0 ; JAL FN ; ADDI $r1,$r0,5 ; FN: JR $r7
CallReturnScenario ==
    << Line(None, "ADDI", <<Reg(7), Reg(0), Num(0)>>),
       Line(None, "JAL", <<Id("FN")>>),
       Line(None, "ADDI", <<Reg(1), Reg(0), Num(5)>>),
       Line(Some("FN"), "JR", <<Reg(7)>>) >>

\* The third scenario of the specification, as written there.
Scenario3 == BranchScenario(1, 1, 99, 42)

\* The fourth scenario of the specification.
Scenario4 == LoadBranchScenario("BEQ")

\* An instruction with an immediate, "mn $rt, $rs, v"; for "LW()" and "SW()"
\* the two-operand form "LW $rt, v($rs)" of LW and SW.
ImmLine(mn, rt, rs, v) ==
    IF mn \in {"LW()", "SW()"}
    THEN Line(None, IF mn = "LW()" THEN "LW" ELSE "SW", <<Reg(rt), <<"mem", v, rs>>>>)
    ELSE Line(None, mn, <<Reg(rt), Reg(rs), Num(v)>>)

\* Line k + 1 of the text holds an instruction with immediate v; the k lines
\* before it and the line after it are blank, comments or valid instructions.
ImmScenario(before, mn, v) ==
    before \o << ImmLine(mn, 1, 0, v), Line(None, "ADDI", <<Reg(2), Reg(0), Num(1)>>) >>

\* The lines in front of the instruction of an ImmScenario.
LinesBefore ==
    { <<>>,
      << Line(None, "ADDI", <<Reg(1), Reg(0), Num(5)>>) >>,
      << Comment, Line(None, "ADDI", <<Reg(1), Reg(0), Num(5)>>), Blank >>,
      << Blank >>,
      << Blank, Blank, Line(None, "ADDI", <<Reg(1), Reg(0), Num(5)>>) >> }

ImmMnemonics == {"ADDI", "SUBI", "SLTI", "ANDI", "LW", "LW()", "SW", "SW()"}

\* Texts with an immediate just outside the 6-bit range, and further out.
OutOfRangeSources ==
    {ImmScenario(before, mn, v) :
        before \in LinesBefore, mn \in ImmMnemonics, v \in {32, -33, 64}}

\* One-line texts: every mnemonic in each of its operand forms, with register
\* numbers, immediates and jump addresses at the ends and inside of their
\* ranges.
InstructionSources ==
    {<<Line(None, mn, <<Reg(rd), Reg(rs), Reg(rt)>>)>> :
        mn \in {"ADD", "SUB", "AND", "OR", "SLT"}, rd \in {0, 5, 7}, rs \in {0, 7},
        rt \in {0, 2, 7}}
    \cup {<<Line(None, "JR", <<Reg(rs)>>)>> : rs \in 0..7}
    \cup {<<ImmLine(mn, rt, rs, v)>> :
             mn \in ImmMnemonics, rt \in {0, 5, 7}, rs \in {0, 7}, v \in {-32, -1, 0, 31}}
    \cup {<<ImmLine(mn, 5, 3, v)>> : mn \in {"LW", "SW"}, v \in {-32, 31}}
    \cup {<<Line(None, mn, <<Reg(rs), Reg(rt), Num(v)>>)>> :
             mn \in {"BEQ", "BNQ"}, rs \in {0, 7}, rt \in {0, 7}, v \in {-32, -1, 0, 31}}
    \cup {<<Line(None, mn, <<Num(address)>>)>> :
             mn \in {"JUMP", "JAL"}, address \in {0, 1, 2730, 4095}}

\* Texts whose last line is a branch or a jump to NOWHERE, a name that no line
\* declares: alone, after a valid line, and after a line that declares
\* another label.
UndefinedLabelSources ==
    {before \o <<Line(None, mn, IF mn \in {"BEQ", "BNQ"}
                                THEN <<Reg(1), Reg(0), Id("NOWHERE")>>
                                ELSE <<Id("NOWHERE")>>)>> :
        mn \in {"BEQ", "BNQ", "JUMP", "JAL"},
        before \in { <<>>,
                     << Line(None, "ADDI", <<Reg(1), Reg(0), Num(5)>>) >>,
                     << Line(Some("HERE"), "ADDI", <<Reg(1), Reg(0), Num(5)>>), Comment >> }}

\* Source texts the host assembles and loads.
Sources ==
    {BranchScenario(a, b, v4, v5) : a \in {1, -1}, b \in {1, -1}, v4 \in {31}, v5 \in {10, -22}}
    \cup {Scenario3}
    \cup {LoadBranchScenario(br) : br \in {"BEQ", "BNQ"}}
    \cup {StoredLoadBranchScenario(br, v) : br \in {"BEQ", "BNQ"}, v \in {0, 6}}
    \cup {ZeroRegisterScenario, CallReturnScenario}
    \cup {AddScenario(a, b) : a \in {5, 0, -1}, b \in {3, -1}}
    \cup {StoreLoadScenario(v, a) : v \in {-32, -1, 0, 7, 31}, a \in {0, 4, 31}}
    \cup OutOfRangeSources
    \cup {ImmScenario(before, "ADDI", 31) : before \in LinesBefore}
    \cup {<<Blank>>}
    \cup InstructionSources
    \cup UndefinedLabelSources

----------------------------------------------------------------------------
(* The state machine: one CPU object driven by its host. *)

\* The CPU object held in the variables.
Self ==
    [pc |-> pc, registers |-> registers, instruction_memory |-> instruction_memory,
     data_memory |-> data_memory, cycle |-> cycle,
     IF_ID |-> IF_ID, ID_EX |-> ID_EX, EX_MEM |-> EX_MEM, MEM_WB |-> MEM_WB,
     stall |-> stall, halted |-> halted,
     forward_a |-> forward_a, forward_b |-> forward_b, stall_info |-> stall_info,
     memory_warning |-> memory_warning, control_hazard |-> control_hazard,
     flush_occurred |-> flush_occurred, if_id_was_held |-> if_id_was_held,
     pipeline_history |-> pipeline_history, stall_history |-> stall_history,
     forward_history |-> forward_history, flush_count |-> flush_count,
     seen_in_if |-> seen_in_if, seen_in_wb |-> seen_in_wb]

\* The variables take the fields of CPU object c.
Becomes(c) ==
    /\ pc' = c.pc /\ registers' = c.registers
    /\ instruction_memory' = c.instruction_memory
    /\ data_memory' = c.data_memory /\ cycle' = c.cycle
    /\ IF_ID' = c.IF_ID /\ ID_EX' = c.ID_EX /\ EX_MEM' = c.EX_MEM /\ MEM_WB' = c.MEM_WB
    /\ stall' = c.stall /\ halted' = c.halted
    /\ forward_a' = c.forward_a /\ forward_b' = c.forward_b
    /\ stall_info' = c.stall_info /\ memory_warning' = c.memory_warning
    /\ control_hazard' = c.control_hazard /\ flush_occurred' = c.flush_occurred
    /\ if_id_was_held' = c.if_id_was_held
    /\ pipeline_history' = c.pipeline_history /\ stall_history' = c.stall_history
    /\ forward_history' = c.forward_history /\ flush_count' = c.flush_count
    /\ seen_in_if' = c.seen_in_if /\ seen_in_wb' = c.seen_in_wb

IsCpu(c) ==
    /\ pc = c.pc /\ registers = c.registers
    /\ instruction_memory = c.instruction_memory
    /\ data_memory = c.data_memory /\ cycle = c.cycle
    /\ IF_ID = c.IF_ID /\ ID_EX = c.ID_EX /\ EX_MEM = c.EX_MEM /\ MEM_WB = c.MEM_WB
    /\ stall = c.stall /\ halted = c.halted
    /\ forward_a = c.forward_a /\ forward_b = c.forward_b
    /\ stall_info = c.stall_info /\ memory_warning = c.memory_warning
    /\ control_hazard = c.control_hazard /\ flush_occurred = c.flush_occurred
    /\ if_id_was_held = c.if_id_was_held
    /\ pipeline_history = c.pipeline_history /\ stall_history = c.stall_history
    /\ forward_history = c.forward_history /\ flush_count = c.flush_count
    /\ seen_in_if = c.seen_in_if /\ seen_in_wb = c.seen_in_wb

\* views.assemble_code up to the call of assemble(): text of white space only
\* is turned down, any other text is assembled.
assemble_code(code) ==
    IF \A i \in 1..Len(code) : code[i].blank
    THEN [ok |-> FALSE, machine_codes |-> <<>>, labels |-> <<>>,
          error |-> "No code provided", line_num |-> 0]
    ELSE assemble(code)

\* The error response of views.assemble_code, if any.
error_response(asm) ==
    IF asm.ok THEN None ELSE Some([error |-> asm.error, line_num |-> asm.line_num])

\* views.assemble_code: the source is assembled and, unless that fails, loaded
\* into a fresh CPU.  After a failure no program is loaded and nothing can be
\* stepped: the CPU fields then hold the fresh, empty CPU.
SourceLoaded(src, asm) ==
    /\ source = Some(src)
    /\ asm_error = error_response(asm)
    /\ IsCpu(load_program(asm.machine_codes))

\* A program is loaded into a fresh CPU; no step() call has been made.
Init ==
    /\ \/ \E p \in Programs :
             source = None /\ asm_error = None /\ IsCpu(load_program(p))
       \/ \E src \in Sources : SourceLoaded(src, assemble_code(src))
    /\ calls = 0 /\ idle_calls = 0 /\ raised = FALSE /\ taken_transfers = 0

\* Whether the instruction in decode leaves decode this cycle as a taken
\* branch or a jump.
leaves_decode_taken(b) == ~b.cpu.stall /\ b.jump_target # None

transfer_executed(c) == leaves_decode_taken(before_fetch(c))

\* step() on a running CPU: one clock cycle.
StepRun ==
    /\ asm_error = None
    /\ ~halted /\ ~fetch_raises(Self)
    /\ cycle < MaxCycle
    /\ Becomes(step(Self))
    /\ calls' = calls + 1
    /\ taken_transfers' = taken_transfers + (IF transfer_executed(Self) THEN 1 ELSE 0)
    /\ UNCHANGED <<idle_calls, raised, source, asm_error>>

\* step() on a halted CPU: returns False at once.
StepHalted ==
    /\ asm_error = None
    /\ halted
    /\ idle_calls < MaxIdleCalls
    /\ Becomes(step(Self))
    /\ calls' = calls + 1 /\ idle_calls' = idle_calls + 1
    /\ UNCHANGED <<raised, taken_transfers, source, asm_error>>

\* step() whose fetch raises IndexError (PC below -len(instruction_memory)).
StepRaise ==
    /\ asm_error = None
    /\ ~halted /\ fetch_raises(Self)
    /\ idle_calls < MaxIdleCalls
    /\ Becomes(step(Self))
    /\ calls' = calls + 1 /\ idle_calls' = idle_calls + 1
    /\ raised' = TRUE
    /\ UNCHANGED <<taken_transfers, source, asm_error>>

\* The host persists the CPU between requests: from_json(to_json(cpu)).
Persist ==
    /\ asm_error = None
    /\ Becomes(from_json(to_json(Self)))
    /\ UNCHANGED <<calls, idle_calls, raised, taken_transfers, source, asm_error>>

\* The text the host shows for the loaded program: the disassembly, line by
\* line.
Disassembly ==
    [i \in 1..Len(instruction_memory) |->
        tokenize_line(disassemble_text(instruction_memory[i]))]

\* views.assemble_code on the disassembly of the one-instruction program that
\* is loaded: it is assembled and loaded into a fresh CPU.
AssembleDisassembly ==
    /\ asm_error = None
    /\ Len(instruction_memory) = 1
    /\ source' = Some(Disassembly)
    /\ asm_error' = error_response(assemble_code(Disassembly))
    /\ Becomes(load_program(assemble_code(Disassembly).machine_codes))
    /\ calls' = 0 /\ idle_calls' = 0 /\ raised' = FALSE /\ taken_transfers' = 0

\* cpu.reset(): every field is assigned its initial value, whatever c holds.
reset(c) == reset_cpu

\* cpu.reset() on the CPU object.  The program that was assembled from the
\* source is no longer loaded.
Reset ==
    /\ asm_error = None
    /\ Becomes(reset(Self))
    /\ source' = None
    /\ calls' = 0 /\ idle_calls' = 0 /\ raised' = FALSE /\ taken_transfers' = 0
    /\ UNCHANGED asm_error

\* views.reset_cpu: the CPU is restored from the session, its instruction
\* memory is set aside, the CPU is reset, the instruction memory is put back
\* and the CPU is saved.
views_reset_cpu(c) ==
    to_json([reset(from_json(c)) EXCEPT
                 !.instruction_memory = from_json(c).instruction_memory])

ResetCpu ==
    /\ asm_error = None
    /\ Becomes(from_json(views_reset_cpu(to_json(Self))))
    /\ calls' = 0 /\ idle_calls' = 0 /\ raised' = FALSE /\ taken_transfers' = 0
    /\ UNCHANGED <<source, asm_error>>

\* views.run_all: max_cycles = 1000  # Safety limit
max_cycles == 1000

\* The loop of run_all before its condition is evaluated for the first time:
\* the CPU, cycles_executed, whether the loop is still running, whether a
\* step() call has raised, and the step() calls made: all of them, those on a
\* halted CPU, and the cycles in which a branch or jump was taken.
run_all_start(c) ==
    [cpu |-> c, cycles_executed |-> 0, running |-> TRUE, raised |-> FALSE,
     calls |-> 0, idle_calls |-> 0, taken_transfers |-> 0]

\* The loop after a step() call that ran a cycle and left the CPU as stepped:
\* `cpu.step() and cycles_executed < max_cycles`, then `cycles_executed += 1`.
run_all_stepped(l, stepped, transfer) ==
    [cpu |-> stepped,
     cycles_executed |-> IF ~stepped.halted /\ l.cycles_executed < max_cycles
                         THEN l.cycles_executed + 1 ELSE l.cycles_executed,
     running |-> ~stepped.halted /\ l.cycles_executed < max_cycles,
     raised |-> FALSE,
     calls |-> l.calls + 1, idle_calls |-> l.idle_calls,
     taken_transfers |-> l.taken_transfers + (IF transfer THEN 1 ELSE 0)]

\* One evaluation of the loop's condition, and the body if the condition holds.
run_all_iteration(l) ==
    IF ~l.running THEN l
    ELSE IF l.cpu.halted
    THEN [l EXCEPT !.running = FALSE, !.calls = @ + 1, !.idle_calls = @ + 1]
    ELSE IF fetch_raises(l.cpu)
    THEN [l EXCEPT !.running = FALSE, !.raised = TRUE]
    ELSE run_all_stepped(l, step(l.cpu), transfer_executed(l.cpu))

\* n evaluations of the loop's condition, or fewer if the loop ends before.
RECURSIVE run_all_iterations(_, _)
run_all_iterations(l, n) ==
    IF n = 0 \/ ~l.running THEN l
    ELSE IF n = 1 THEN run_all_iteration(l)
    ELSE run_all_iterations(run_all_iterations(l, n \div 2), n - (n \div 2))

\* The while loop of run_all: cycles_executed grows with every evaluation of
\* the condition but the last, so the loop ends within max_cycles + 1 of them.
run_all_loop(c) == run_all_iterations(run_all_start(c), max_cycles + 1)

\* run_all after its loop has ended as l: the CPU is saved.
run_all_saves(l) ==
    /\ ~l.raised
    /\ Becomes(from_json(to_json(l.cpu)))
    /\ calls' = calls + l.calls
    /\ idle_calls' = idle_calls + l.idle_calls
    /\ taken_transfers' = taken_transfers + l.taken_transfers
    /\ UNCHANGED <<raised, source, asm_error>>

\* views.run_all: the CPU is restored from the session, where
\* views.assemble_code has put it, stepped by the loop and saved.
RunAll ==
    /\ asm_error = None /\ source # None
    /\ cycle <= MaxRunAllStart
    /\ run_all_saves(run_all_loop(from_json(to_json(Self))))

\* views.run_all when a step() call raises: the handler answers with the
\* error and saves nothing, the session keeps the CPU as it was.
RunAllRaise ==
    /\ asm_error = None /\ source # None
    /\ cycle <= MaxRunAllStart
    /\ run_all_loop(from_json(to_json(Self))).raised
    /\ raised' = TRUE
    /\ UNCHANGED <<pc, registers, instruction_memory, data_memory, cycle,
                   IF_ID, ID_EX, EX_MEM, MEM_WB, stall, halted,
                   forward_a, forward_b, stall_info, memory_warning, control_hazard,
                   flush_occurred, if_id_was_held,
                   pipeline_history, stall_history, forward_history, flush_count,
                   seen_in_if, seen_in_wb,
                   calls, idle_calls, taken_transfers, source, asm_error>>

Next ==
    \/ StepRun \/ StepHalted \/ StepRaise \/ Persist \/ AssembleDisassembly
    \/ Reset \/ ResetCpu \/ RunAll \/ RunAllRaise

Spec == Init /\ [][Next]_vars

----------------------------------------------------------------------------
(* Instruction fields and classes, as _stage_id reads them from the word. *)

field_opcode(h) == (FromHex(h) \div 4096) % 16
field_rs(h) == (FromHex(h) \div 512) % 8
field_rt(h) == (FromHex(h) \div 64) % 8
field_rd(h) == (FromHex(h) \div 8) % 8
field_funct(h) == FromHex(h) % 8

is_r_alu(h) == field_opcode(h) = 0 /\ field_funct(h) < 5
is_i_alu(h) == field_opcode(h) \in {3, 4, 5, 8}
is_alu(h) == is_r_alu(h) \/ is_i_alu(h)
is_load(h) == field_opcode(h) = 1
is_store(h) == field_opcode(h) = 2
is_branch(h) == field_opcode(h) \in {6, 7}
is_jr(h) == field_opcode(h) = 0 /\ field_funct(h) = 5

\* The destination register of an ALU instruction or a load.
dest(h) == IF field_opcode(h) = 0 THEN field_rd(h) ELSE field_rt(h)

\* The source registers an instruction reads.
reads_rs(h) == is_alu(h) \/ is_load(h) \/ is_store(h) \/ is_branch(h) \/ is_jr(h)
reads_rt(h) == is_r_alu(h) \/ is_store(h) \/ is_branch(h)
reads(h, r) == (reads_rs(h) /\ field_rs(h) = r) \/ (reads_rt(h) /\ field_rt(h) = r)

\* Latch l holds a load of register r / an ALU instruction writing register r.
LoadIn(l, r) == l.valid /\ is_load(l.instruction) /\ dest(l.instruction) = r
AluIn(l, r) == l.valid /\ is_alu(l.instruction) /\ dest(l.instruction) = r

\* Latch l holds an instruction that reads register r.
ReaderIn(l, r) == l.valid /\ reads(l.instruction, r)

\* The step taken is a step() call that ran a clock cycle.
Ran == cycle' = cycle + 1

\* The cycle just run asserted a stall (_stage_id recorded its reason).
StallAsserted == stall_info' # None

\* The retired instructions (the members of _seen_in_wb), by class.
Retired(h) == \E e \in seen_in_wb : e[2] = h

----------------------------------------------------------------------------
(* Properties. *)

\* C1: register 0 is 0 in every reachable state: write-back never writes it,
\* whatever instruction (LW, ADDI, R-type) names it as destination.
C1_RegisterZero == registers[0] = 0

\* A load, an immediate and an R-type instruction, each with destination 0
\* and each with a non-zero result, have retired.
C1_Witness ==
    /\ source = Some(ZeroRegisterScenario) /\ halted
    /\ \E h \in {instruction_memory[i] : i \in 1..Len(instruction_memory)} :
           is_load(h) /\ dest(h) = 0 /\ Retired(h)
    /\ \E h \in {instruction_memory[i] : i \in 1..Len(instruction_memory)} :
           is_r_alu(h) /\ dest(h) = 0 /\ Retired(h)
    /\ data_memory[0] = 5 /\ registers[1] = 5

\* C2: a consumer right behind LW $r that reads r (as rs, or as rt of an
\* R-type, a store or a branch) is held for exactly one stall cycle and then
\* uses the value the load read from memory.
C2_LoadUseOneStall ==
    [][Ran =>
         \A r \in 1..7 :
            \* the consumer in decode is held while the load is in EX
            /\ (LoadIn(ID_EX, r) /\ ReaderIn(IF_ID, r))
                   => (StallAsserted /\ IF_ID' = IF_ID /\ ~ID_EX'.valid)
            \* and is let through the cycle after
            /\ (LoadIn(EX_MEM, r) /\ ~ID_EX.valid /\ ReaderIn(IF_ID, r))
                   => (~StallAsserted /\ ID_EX'.valid)
            \* its rt operand in EX is the loaded value
            /\ (LoadIn(EX_MEM, r) /\ ID_EX.valid /\ reads_rt(ID_EX.instruction)
                    /\ field_rt(ID_EX.instruction) = r)
                   => EX_MEM'.rt_val = MEM_WB'.mem_data
            /\ (LoadIn(MEM_WB, r) /\ ~EX_MEM.valid /\ ID_EX.valid
                    /\ reads_rt(ID_EX.instruction) /\ field_rt(ID_EX.instruction) = r)
                   => EX_MEM'.rt_val = MEM_WB.mem_data
      ]_vars

\* C3: an ALU instruction C right behind an ALU instruction P that writes
\* r # 0 and reading r is not stalled, and in EX it takes P's result from the
\* EX/MEM latch: the forwarding record says so and C's result is computed
\* from that value.
C3_AluForwarding ==
    [][Ran =>
         \A r \in 1..7 :
            /\ (AluIn(ID_EX, r) /\ IF_ID.valid /\ is_alu(IF_ID.instruction)
                    /\ reads(IF_ID.instruction, r))
                   => /\ ~StallAsserted
                      /\ ID_EX'.valid /\ ID_EX'.pc = IF_ID.pc
                      /\ ID_EX'.instruction = IF_ID.instruction
            /\ (AluIn(EX_MEM, r) /\ ID_EX.valid /\ is_alu(ID_EX.instruction)
                    /\ field_rs(ID_EX.instruction) = r)
                   => /\ forward_a' = Some([source |-> "EX_MEM", reg |-> r,
                                            value |-> EX_MEM.alu_result])
                      /\ EX_MEM'.valid /\ EX_MEM'.pc = ID_EX.pc
                      /\ EX_MEM'.alu_result =
                             alu(ID_EX.alu_op, EX_MEM.alu_result, EX_MEM'.rt_val,
                                 ID_EX.imm, ID_EX.rs_val)
            /\ (AluIn(EX_MEM, r) /\ ID_EX.valid /\ is_r_alu(ID_EX.instruction)
                    /\ field_rt(ID_EX.instruction) = r)
                   => /\ forward_b' = Some([source |-> "EX_MEM", reg |-> r,
                                            value |-> EX_MEM.alu_result])
                      /\ EX_MEM'.rt_val = EX_MEM.alu_result
      ]_vars

\* C has just executed behind P: P's result, which the register file does not
\* hold yet, was forwarded to C's rs operand from EX/MEM.
C3_Witness ==
    \E r \in 1..7 :
       /\ AluIn(MEM_WB, r)
       /\ EX_MEM.valid /\ is_alu(EX_MEM.instruction) /\ field_rs(EX_MEM.instruction) = r
       /\ EX_MEM.pc = MEM_WB.pc + 1
       /\ forward_a = Some([source |-> "EX_MEM", reg |-> r, value |-> MEM_WB.alu_result])
       /\ registers[r] # MEM_WB.alu_result
       /\ stall_history = <<>>

\* C4: flush_count is the number of taken control transfers executed; a branch
\* or jump held in decode by a stall is counted once, when it leaves decode.
C4_FlushCountIsTransfers == flush_count = taken_transfers

\* C5: in a cycle that asserts a stall the IF/ID latch keeps its contents,
\* the ID/EX latch becomes invalid, and the PC becomes the held IF/ID.pc + 1.
C5_StallCycle ==
    [][(Ran /\ StallAsserted) =>
          (IF_ID' = IF_ID /\ ~ID_EX'.valid /\ pc' = IF_ID.pc + 1)]_vars

\* A stall cycle has just run on a held instruction.
C5_Witness ==
    /\ stall_info # None /\ if_id_was_held
    /\ IF_ID.valid /\ ~ID_EX.valid /\ pc = IF_ID.pc + 1
    /\ stall_history # <<>> /\ stall_history[Len(stall_history)] = cycle

\* n consecutive step() calls on CPU object c.
RECURSIVE step_n(_, _)
step_n(c, n) == IF n = 0 THEN c ELSE step_n(step(c), n - 1)

\* C6: the CPU restored from a JSON snapshot and the original CPU give the
\* same get_state() snapshot after every following step().
C6_RoundTrip ==
    \A n \in 1..MaxRestoredSteps :
        get_state(step_n(from_json(to_json(Self)), n)) = get_state(step_n(Self, n))

\* A running CPU whose restored copy differs from it (the per-cycle records,
\* here the stall reason, are not serialized), with data memory, histories,
\* a flush count and retired instructions to restore.
C6_Witness ==
    /\ ~halted /\ ~raised
    /\ from_json(to_json(Self)) # Self
    /\ stall_info # None /\ stall_history # <<>> /\ flush_count > 0
    /\ data_memory # <<>> /\ seen_in_wb # {}

\* C7 (as stated): after n step() calls on a freshly loaded CPU the cycle
\* counter is n and pipeline_history has n entries.
C7_CycleEqualsCalls == cycle = calls /\ Len(pipeline_history) = calls

\* C7 (amended): the cycle counter and the length of pipeline_history equal
\* the number of step() calls that ran a clock cycle: the calls made while
\* the CPU was not halted and whose fetch did not raise.
C7_CycleCountsCyclesRun ==
    cycle = calls - idle_calls /\ Len(pipeline_history) = cycle

\* step() has been called again on a CPU that halted after running a program.
C7_Witness ==
    /\ halted /\ idle_calls >= 1 /\ cycle >= 5
    /\ calls = cycle + idle_calls /\ Len(pipeline_history) = cycle

\* C8: with an empty instruction memory the first step() returns not-running
\* and sets halted; every later step() leaves the whole CPU state unchanged.
C8_EmptyProgram ==
    [][(instruction_memory = <<>> /\ calls' = calls + 1) =>
          /\ ~step_returns(Self)
          /\ halted'
          /\ calls >= 1 => Self' = Self]_vars

\* The empty program has been stepped several times.
C8_Witness ==
    instruction_memory = <<>> /\ source = None /\ calls >= 2 /\ halted /\ cycle = 1

\* The branch scenarios whose BEQ compares equal values.
TakenBranchScenarios ==
    {BranchScenario(a, a, 31, v5) : a \in {1, -1}, v5 \in {10, -22}}

\* The value ADDI $r5, $r0, v5 of a branch scenario leaves in r5.
ScenarioR5(src) == Mask16(src[5].operands[3][2])

\* C9 (amended): a taken BEQ whose operands come from the two ALU instructions
\* right before it resolves without a stall; the instruction fetched behind it
\* is flushed, never reaches ID/EX, never retires and never writes its
\* destination; execution continues at the target.  The program
\*   ADDI $r1,$r0,1; ADDI $r2,$r0,1; BEQ $r1,$r2,TGT; ADDI $r4,$r0,31;
\*   TGT: ADDI $r5,$r0,10
\* (immediates inside the assembler's 6-bit range) ends with r4 = 0, r5 = 10
\* and flush_count = 1.
C9_TakenBranchAfterProducers ==
    /\ [][Ran =>
            \A r1, r2 \in 1..7 :
               (/\ r1 # r2
                /\ IF_ID.valid /\ field_opcode(IF_ID.instruction) = 6
                /\ {field_rs(IF_ID.instruction), field_rt(IF_ID.instruction)} = {r1, r2}
                /\ AluIn(EX_MEM, r1) /\ AluIn(ID_EX, r2)
                /\ EX_MEM.alu_result = EX_MEM'.alu_result)
               => /\ ~StallAsserted /\ stall_history' = stall_history
                  /\ ID_EX'.valid /\ ID_EX'.instruction = IF_ID.instruction
                  /\ flush_occurred' /\ ~IF_ID'.valid
                  /\ pc' = IF_ID.pc + 1 + sign_extend6(FromHex(IF_ID.instruction) % 64)
                  /\ flush_count' = flush_count + 1]_vars
    /\ [](\A src \in TakenBranchScenarios :
             source = Some(src) =>
                /\ asm_error = None
                /\ ~(ID_EX.valid /\ ID_EX.pc = 3)
                /\ ~(EX_MEM.valid /\ EX_MEM.pc = 3)
                /\ ~(MEM_WB.valid /\ MEM_WB.pc = 3)
                /\ \A e \in seen_in_wb : e[1] # 3
                /\ registers[4] = 0
                /\ stall_history = <<>>
                /\ halted => /\ registers[5] = ScenarioR5(src)
                             /\ flush_count = 1
                             /\ \E e \in seen_in_wb : e[1] = 4)

\* The amended program has run to its end.
C9_Witness ==
    /\ source = Some(BranchScenario(1, 1, 31, 10)) /\ halted
    /\ registers[1] = 1 /\ registers[2] = 1
    /\ registers[4] = 0 /\ registers[5] = 10 /\ flush_count = 1

\* C9 (as stated): the program ADDI $r1,$r0,1; ADDI $r2,$r0,1;
\* BEQ $r1,$r2,TGT; ADDI $r4,$r0,99; TGT: ADDI $r5,$r0,42 is a program the CPU
\* runs, and it finishes with r4 = 0, r5 = 42 and flush_count = 1.
C9_Scenario3AsWritten ==
    source = Some(Scenario3) =>
        /\ asm_error = None
        /\ halted => (registers[4] = 0 /\ registers[5] = 42 /\ flush_count = 1)

\* Latch l holds a BEQ or BNQ that compares register r.
BranchOn(l, r) ==
    /\ l.valid /\ is_branch(l.instruction)
    /\ (field_rs(l.instruction) = r \/ field_rt(l.instruction) = r)

\* The instruction in decode is held for this cycle.
HeldInDecode == StallAsserted /\ IF_ID' = IF_ID /\ ~ID_EX'.valid

\* The operand x of a branch decided when the load of r is in MEM/WB.
LoadedOperand(x, r) == IF x = r THEN MEM_WB.mem_data ELSE registers'[x]

\* Whether the branch in IF/ID is taken on operands read that way.
TakenOnLoaded(r) ==
    LET a == LoadedOperand(field_rs(IF_ID.instruction), r)
        b == LoadedOperand(field_rt(IF_ID.instruction), r)
    IN IF field_opcode(IF_ID.instruction) = 6 THEN a = b ELSE a # b

\* C10: a BEQ/BNQ right behind LW $r that compares r is held for exactly two
\* stall cycles and is then decided on the loaded value.  The program
\*   LW $r1,$r0,0; BEQ $r1,$r0,TGT; TGT: ADDI $r2,$r0,9
\* on empty data memory reports the uninitialized read in exactly one cycle,
\* takes the branch and halts with r2 = 9.
C10_BranchAfterLoad ==
    /\ [][Ran =>
            \A r \in 1..7 :
               /\ (LoadIn(ID_EX, r) /\ BranchOn(IF_ID, r)) => HeldInDecode
               /\ (LoadIn(EX_MEM, r) /\ ~ID_EX.valid /\ BranchOn(IF_ID, r))
                      => HeldInDecode
               /\ (LoadIn(MEM_WB, r) /\ ~EX_MEM.valid /\ ~ID_EX.valid
                      /\ BranchOn(IF_ID, r))
                      => /\ ~StallAsserted /\ stall_history' = stall_history
                         /\ ID_EX'.valid /\ ID_EX'.instruction = IF_ID.instruction
                         /\ flush_occurred' = TakenOnLoaded(r)]_vars
    /\ [][(Ran /\ source = Some(Scenario4)) =>
             /\ (memory_warning' # None) = (cycle' = 4)
             /\ cycle' = 5 => /\ ~StallAsserted /\ flush_occurred' /\ ~IF_ID'.valid
                              /\ pc' = 2]_vars
    /\ [](/\ source = Some(Scenario4) /\ halted
             => stall_history = <<3, 4>> /\ registers[2] = 9 /\ registers[1] = 0
          /\ \A br \in {"BEQ", "BNQ"}, v \in {0, 6} :
                (source = Some(StoredLoadBranchScenario(br, v)) /\ halted)
                   => /\ Len(stall_history) = 2
                      /\ registers[1] = v /\ registers[2] = 9
                      /\ registers[4] = IF (br = "BEQ") = (v = 0) THEN 0 ELSE 7)

\* The fourth scenario has run to its end after its two stall cycles.
C10_Witness ==
    /\ source = Some(Scenario4) /\ halted
    /\ stall_history = <<3, 4>> /\ registers[2] = 9

\* The fields of CPU object c that step() computes with: the program counter,
\* the register file, both memories, the latches and the two flags.  (The rest
\* are the counters, the per-cycle records and the histories it only writes.)
core(c) ==
    [pc |-> c.pc, registers |-> c.registers,
     instruction_memory |-> c.instruction_memory, data_memory |-> c.data_memory,
     IF_ID |-> c.IF_ID, ID_EX |-> c.ID_EX, EX_MEM |-> c.EX_MEM, MEM_WB |-> c.MEM_WB,
     stall |-> c.stall, halted |-> c.halted]

\* CPU object c with its counters, records and histories as in a fresh CPU.
with_core(c) ==
    [reset_cpu EXCEPT
        !.pc = c.pc, !.registers = c.registers,
        !.instruction_memory = c.instruction_memory, !.data_memory = c.data_memory,
        !.IF_ID = c.IF_ID, !.ID_EX = c.ID_EX, !.EX_MEM = c.EX_MEM, !.MEM_WB = c.MEM_WB,
        !.stall = c.stall, !.halted = c.halted]

\* C11 (amended): the program
\*   ADDI $r7,$r0,0; JAL FN; ADDI $r1,$r0,5; FN: JR $r7
\* never halts.  JAL writes 2, the address of the instruction after it, to r7
\* and JR $r7 jumps to 2 (taking the value from the in-flight JAL), which is
\* the ADDI in front of FN: ADDI and JR then repeat for ever.  From cycle 10
\* on the CPU is, counters and histories aside, in the state it was in three
\* cycles before, and what step() does to those fields does not depend on
\* the counters and histories.
C11_CallReturnLoops ==
    source = Some(CallReturnScenario) =>
        /\ asm_error = None /\ ~raised
        /\ ~halted
        /\ registers[7] = (IF cycle >= 6 THEN 2 ELSE 0)
        /\ registers[1] = (IF cycle >= 10 THEN 5 ELSE 0)
        /\ cycle = 5 => pc = 2 /\ ~IF_ID.valid
        /\ cycle >= 10 => core(step_n(Self, 3)) = core(Self)
        /\ core(step(with_core(Self))) = core(step(Self))

\* The program has gone round its loop several times.
C11_Witness ==
    /\ source = Some(CallReturnScenario) /\ cycle >= 16
    /\ ~halted /\ registers[7] = 2 /\ registers[1] = 5
    /\ pc \in 2..4 /\ flush_count >= 4

\* C11 (as stated): the program halts after finitely many step() calls.  As
\* step() is a function of the CPU state, a run that halts never comes back,
\* before it halts, to a state it has been in (counters and histories aside).
C11_CallReturnHalts ==
    (source = Some(CallReturnScenario) /\ ~halted) =>
        \A n \in 1..MaxPeriod : core(step_n(Self, n)) # core(Self)

\* The forwarding record step() leaves for a value taken from latch `source`.
Forwarded(src, r, v) == Some([source |-> src, reg |-> r, value |-> v])

\* The pipeline holds ADD $r3,$r1,$r2 of an add scenario in ID/EX: the cycle
\* that runs next has it in EX.
AddInEx == ID_EX.valid /\ ID_EX.pc = 2

\* C12 (amended): for ADDI $r1,$r0,a; ADDI $r2,$r0,b; ADD $r3,$r1,$r2, in the
\* cycle in which the ADD is in EX the first ADDI is in MEM/WB and the second
\* in EX/MEM: forward_a (the rs input, r1) has source MEM/WB with value
\* a mod 2^16 and forward_b (the rt input, r2) has source EX/MEM with value
\* b mod 2^16; the ADD computes a + b from them, there is no stall, and the
\* run ends with r1 = a, r2 = b, r3 = a + b (mod 2^16).
C12_AddForwards ==
    /\ [][\A a \in {5, 0, -1}, b \in {3, -1} :
            (Ran /\ source = Some(AddScenario(a, b)) /\ AddInEx) =>
                /\ cycle' = 5
                /\ AluIn(MEM_WB, 1) /\ MEM_WB.pc = 0 /\ AluIn(EX_MEM, 2) /\ EX_MEM.pc = 1
                /\ registers'[2] = 0
                /\ forward_a' = Forwarded("MEM_WB", 1, Mask16(a))
                /\ forward_b' = Forwarded("EX_MEM", 2, Mask16(b))
                /\ EX_MEM'.alu_result = Mask16(a + b)]_vars
    /\ [](\A a \in {5, 0, -1}, b \in {3, -1} :
            source = Some(AddScenario(a, b)) =>
                /\ asm_error = None /\ stall_history = <<>>
                /\ halted => /\ registers[1] = Mask16(a) /\ registers[2] = Mask16(b)
                             /\ registers[3] = Mask16(a + b))

\* The ADD of ADDI $r1,$r0,5; ADDI $r2,$r0,3; ADD $r3,$r1,$r2 has just been
\* in EX, with r2 not yet written to the register file.
C12_Witness ==
    /\ source = Some(AddScenario(5, 3)) /\ cycle = 5
    /\ forward_a = Forwarded("MEM_WB", 1, 5) /\ forward_b = Forwarded("EX_MEM", 2, 3)
    /\ EX_MEM.valid /\ EX_MEM.pc = 2 /\ EX_MEM.alu_result = 8
    /\ registers[2] = 0

\* C12 (as stated): in the cycle in which the ADD is in EX, forward_a has
\* source EX/MEM with value a and forward_b has source MEM/WB with value b.
C12_AddForwardsAsStated ==
    [][\A a \in {5, 0, -1}, b \in {3, -1} :
          (Ran /\ source = Some(AddScenario(a, b)) /\ AddInEx) =>
             /\ forward_a' = Forwarded("EX_MEM", 1, Mask16(a))
             /\ forward_b' = Forwarded("MEM_WB", 2, Mask16(b))]_vars

\* C13: for v in [-32, 31] and a in [0, 31] the program
\*   ADDI $r1,$r0,v; SW $r1,$r0,a; LW $r2,$r0,a; ADD $r3,$r2,$r1
\* ends with data_memory[a] = v mod 2^16, r2 = v mod 2^16 and
\* r3 = 2v mod 2^16 after exactly one stall cycle, the one that holds the ADD
\* behind the LW: the LW right behind the SW reads the word the SW stored,
\* and reports no uninitialized read.
C13_StoreThenLoad ==
    /\ [](\A v \in {-32, -1, 0, 7, 31}, a \in {0, 4, 31} :
            source = Some(StoreLoadScenario(v, a)) =>
                /\ asm_error = None /\ ~raised
                /\ memory_warning = None
                /\ stall_history = (IF cycle >= 5 THEN <<5>> ELSE <<>>)
                /\ cycle >= 5 => DOMAIN data_memory = {a} /\ data_memory[a] = Mask16(v)
                /\ (MEM_WB.valid /\ MEM_WB.pc = 2) => MEM_WB.mem_data = Mask16(v)
                /\ halted => /\ registers[1] = Mask16(v) /\ registers[2] = Mask16(v)
                             /\ registers[3] = Mask16(2 * v))
    /\ [][(Ran /\ StallAsserted
              /\ \E v \in {-32, -1, 0, 7, 31}, a \in {0, 4, 31} :
                     source = Some(StoreLoadScenario(v, a)))
            => (LoadIn(ID_EX, 2) /\ IF_ID.valid /\ IF_ID.pc = 3 /\ HeldInDecode)]_vars

\* The program has stored -1 at address 31, loaded it back and halted.
C13_Witness ==
    /\ source = Some(StoreLoadScenario(-1, 31)) /\ halted
    /\ data_memory[31] = 65535 /\ registers[2] = 65535 /\ registers[3] = 65534
    /\ stall_history = <<5>>

\* The number, counted from 1 in the text, of the first line of src whose
\* immediate lies outside [-32, 31].
OutOfRangeLine(src) ==
    Min({i \in 1..Len(src) :
            /\ src[i].instruction # None
            /\ LET op == src[i].operands[Len(src[i].operands)]
               IN ~imm_in_range(op[2], 6)})

\* C15: assembling a text in which an ADDI/SUBI/SLTI/ANDI/LW/SW immediate
\* lies outside [-32, 31] fails with the out-of-range error that carries the
\* number of that instruction's line in the text, counted from 1, and no
\* machine code is loaded, also when valid lines come first.
C15_OutOfRangeLine ==
    \A src \in OutOfRangeSources :
        source = Some(src) =>
            /\ asm_error = Some([error |-> "Immediate value out of range",
                                 line_num |-> OutOfRangeLine(src)])
            /\ instruction_memory = <<>>

\* C16: assembling a BEQ, BNQ, JUMP or JAL whose target is a name that is not
\* a declared label fails with an error that carries the line number of that
\* instruction, and no machine word is emitted.
C16_UndefinedLabel ==
    \A src \in UndefinedLabelSources :
        source = Some(src) =>
            /\ asm_error # None
            /\ asm_error[1].line_num = Len(src)
            /\ instruction_memory = <<>>

\* The fields that reset() is to clear hold their initial values in the
\* next state.
Cleared ==
    /\ pc' = 0 /\ cycle' = 0
    /\ registers' = [r \in 0..7 |-> 0]
    /\ data_memory' = <<>>
    /\ ~IF_ID'.valid /\ ~ID_EX'.valid /\ ~EX_MEM'.valid /\ ~MEM_WB'.valid
    /\ ~halted'
    /\ pipeline_history' = <<>> /\ stall_history' = <<>> /\ forward_history' = <<>>
    /\ flush_count' = 0

\* C17: cpu.reset(), in any reachable state, sets PC and cycle to 0, all
\* registers to 0, data memory to empty, all four latches to invalid, halted
\* to false and the histories and flush_count to empty and 0, and leaves the
\* instruction memory as it was.
C17_ResetKeepsProgram ==
    [][Reset => (Cleared /\ instruction_memory' = instruction_memory)]_vars

\* C18: one run-all makes at most 1000 step() calls and never advances the
\* cycle counter by more than 1000.
C18_RunAllBound ==
    [][RunAll => (calls' - calls <= max_cycles /\ cycle' - cycle <= max_cycles)]_vars

\* C19: for an instruction memory of arbitrary 16-bit words no step() call
\* raises, and a step() that finds the PC outside [0, len(instruction_memory))
\* fetches nothing: PC stays where it is unless a branch or jump moves it,
\* and no fetched instruction enters IF/ID.
C19_StepNeverRaises ==
    [][(StepRun \/ StepRaise) =>
          /\ raised' => raised
          /\ (pc < 0 \/ pc >= Len(instruction_memory)) =>
                 ~stage_if(before_fetch(Self).cpu).result.valid]_vars

\* C20: after every step() call, halted is true if and only if the four
\* latches are all invalid and PC >= len(instruction_memory); in particular
\* the CPU is never halted while a latch holds a valid instruction.
C20_HaltedIffDrained ==
    calls > 0 =>
        (halted <=> (/\ ~IF_ID.valid /\ ~ID_EX.valid /\ ~EX_MEM.valid /\ ~MEM_WB.valid
                     /\ pc >= Len(instruction_memory)))

\* A program of two instructions has run through the pipeline, written a
\* register, drained and halted.
C20_Witness ==
    /\ halted /\ calls >= 6 /\ cycle = calls
    /\ Len(instruction_memory) = 2 /\ pc = 2
    /\ \E r \in 1..7 : registers[r] # 0
    /\ ~IF_ID.valid /\ ~ID_EX.valid /\ ~EX_MEM.valid /\ ~MEM_WB.valid

\* The instruction in the MEM stage of the cycle being run is a load.
LoadInMem == EX_MEM.valid /\ EX_MEM.mem_read

\* The address the load in MEM reads.
LoadAddress == Mask16(EX_MEM.alu_result)

\* C21: in the cycle in which a LW is in MEM, if its address was never written
\* by a SW the load reads 0, memory_warning is set with that address, the
\* address is not added to data_memory, and the CPU neither halts nor raises;
\* if the address was written, the load reads the stored word and
\* memory_warning stays unset.
C21_UninitializedRead ==
    [][(StepRun /\ LoadInMem) =>
          /\ MEM_WB'.valid /\ MEM_WB'.pc = EX_MEM.pc /\ MEM_WB'.mem_to_reg
          /\ data_memory' = data_memory
          /\ ~halted' /\ raised' = raised
          /\ LoadAddress \notin DOMAIN data_memory =>
                 /\ MEM_WB'.mem_data = 0 /\ wb_data(MEM_WB') = 0
                 /\ memory_warning' # None
                 /\ memory_warning'[1].address = LoadAddress
                 /\ memory_warning'[1].instruction = EX_MEM.instruction
          /\ LoadAddress \in DOMAIN data_memory =>
                 /\ MEM_WB'.mem_data = data_memory[LoadAddress]
                 /\ memory_warning' = None]_vars

\* A load has just read an address that no store has written, while data
\* memory holds a word at another address.
C21_Witness ==
    /\ MEM_WB.valid /\ is_load(MEM_WB.instruction) /\ MEM_WB.mem_data = 0
    /\ memory_warning # None
    /\ memory_warning[1].address = Mask16(MEM_WB.alu_result)
    /\ memory_warning[1].address \notin DOMAIN data_memory
    /\ data_memory # <<>>
    /\ ~halted /\ ~raised

\* The sequential reference interpreter of the claims: one instruction at a
\* time, on a state of PC, register file and data memory.
ref_start == [pc |-> 0, registers |-> [r \in 0..7 |-> 0], data_memory |-> <<>>]

ref_write(s, r, v) ==
    IF r = 0 THEN s.registers ELSE [s.registers EXCEPT ![r] = v % 65536]

ref_alu(h, a, b) ==
    CASE field_funct(h) = 0 -> (a + b) % 65536
      [] field_funct(h) = 1 -> (a - b) % 65536
      [] field_funct(h) = 2 -> BitAnd(a, b)
      [] field_funct(h) = 3 -> BitOr(a, b)
      [] OTHER -> IF signed(a) < signed(b) THEN 1 ELSE 0

ref_imm(h) == sign_extend6(FromHex(h) % 64)

ref_alu_imm(h, a) ==
    CASE field_opcode(h) = 3 -> (a + ref_imm(h)) % 65536
      [] field_opcode(h) = 4 -> (a - ref_imm(h)) % 65536
      [] field_opcode(h) = 5 -> IF signed(a) < ref_imm(h) THEN 1 ELSE 0
      [] OTHER -> BitAnd(a, FromHex(h) % 64)

\* The state after the instruction word h at address s.pc.
ref_execute(s, h) ==
    LET rs == s.registers[field_rs(h)]
        rt == s.registers[field_rt(h)]
        addr == (rs + ref_imm(h)) % 65536
        next == [s EXCEPT !.pc = s.pc + 1]
    IN IF is_r_alu(h)
       THEN [next EXCEPT !.registers = ref_write(s, field_rd(h), ref_alu(h, rs, rt))]
       ELSE IF is_jr(h) THEN [s EXCEPT !.pc = rs]
       ELSE IF is_i_alu(h)
       THEN [next EXCEPT !.registers = ref_write(s, field_rt(h), ref_alu_imm(h, rs))]
       ELSE IF is_load(h)
       THEN [next EXCEPT !.registers =
                 ref_write(s, field_rt(h),
                           IF addr \in DOMAIN s.data_memory THEN s.data_memory[addr] ELSE 0)]
       ELSE IF is_store(h)
       THEN [next EXCEPT !.data_memory =
                 [a \in DOMAIN s.data_memory \cup {addr} |->
                     IF a = addr THEN rt ELSE s.data_memory[a]]]
       ELSE IF is_branch(h)
       THEN (IF (field_opcode(h) = 6) = (rs = rt)
             THEN [s EXCEPT !.pc = s.pc + 1 + ref_imm(h)] ELSE next)
       ELSE IF field_opcode(h) = 9 THEN [s EXCEPT !.pc = FromHex(h) % 4096]
       ELSE IF field_opcode(h) = 10
       THEN [s EXCEPT !.pc = FromHex(h) % 4096,
                      !.registers = ref_write(s, 7, s.pc + 1)]
       ELSE next

\* The PC of state s is an address of the program.
ref_running(prog, s) == s.pc >= 0 /\ s.pc < Len(prog)

\* The state after at most n instructions of prog, fewer if the PC leaves the
\* program before.
RECURSIVE ref_run(_, _, _)
ref_run(prog, s, n) ==
    IF n = 0 \/ ~ref_running(prog, s) THEN s
    ELSE ref_run(prog, ref_execute(s, prog[s.pc + 1]), n - 1)

\* C22: when a program has halted, the register file and the data memory are
\* those the sequential reference interpreter ends with (a run of c cycles
\* has retired at most c instructions).
C22_SequentialEquivalence ==
    halted =>
        /\ ~ref_running(instruction_memory, ref_run(instruction_memory, ref_start, cycle))
        /\ registers = ref_run(instruction_memory, ref_start, cycle).registers
        /\ data_memory = ref_run(instruction_memory, ref_start, cycle).data_memory

\* The store in the MEM stage of the cycle being run comes right behind the
\* load of register r in MEM/WB, stores r and does not use r as its base.
StoreBehindLoad(r) ==
    /\ LoadIn(MEM_WB, r)
    /\ EX_MEM.valid /\ is_store(EX_MEM.instruction) /\ EX_MEM.pc = MEM_WB.pc + 1
    /\ field_rt(EX_MEM.instruction) = r /\ field_rs(EX_MEM.instruction) # r

\* C23: a SW right behind a LW of its data register rX # 0, with another base
\* register, writes to data memory the value the LW loaded.
C23_StoreBehindLoad ==
    [][\A r \in 1..7 :
          (StepRun /\ StoreBehindLoad(r)) =>
              /\ Mask16(EX_MEM.alu_result) \in DOMAIN data_memory'
              /\ data_memory'[Mask16(EX_MEM.alu_result)] = MEM_WB.mem_data]_vars

\* The cycle being run records a flush.
FlushRecorded == StepRun /\ flush_count' = flush_count + 1 /\ control_hazard' # None

\* C24: in every cycle that records a flush the committed IF/ID is invalid, PC
\* is the recorded target address, and the branch or jump that was in decode
\* is valid in the committed ID/EX.
C24_FlushCommit ==
    [][FlushRecorded =>
          /\ ~IF_ID'.valid
          /\ control_hazard'[1].target_address = Some(pc')
          /\ ID_EX'.valid /\ ID_EX'.pc = IF_ID.pc
          /\ ID_EX'.instruction = IF_ID.instruction]_vars

\* C25: in every reachable state the program counter is a non-negative integer.
C25_PcNonNegative == pc \in Nat

\* The operand the instruction in EX gets for register x, decoded as v, and
\* the record of where it came from, in terms of the latches before the cycle.
ChosenOperand(x, v) ==
    IF x # 0 /\ EX_MEM.valid /\ EX_MEM.reg_write /\ EX_MEM.rd = x
    THEN [val |-> EX_MEM.alu_result,
          fwd |-> Some([source |-> "EX_MEM", reg |-> x, value |-> EX_MEM.alu_result])]
    ELSE IF x # 0 /\ MEM_WB.valid /\ MEM_WB.reg_write /\ MEM_WB.rd = x
    THEN IF MEM_WB.mem_to_reg
         THEN [val |-> MEM_WB.mem_data,
               fwd |-> Some([source |-> "MEM_WB", reg |-> x, value |-> MEM_WB.mem_data])]
         ELSE [val |-> MEM_WB.alu_result,
               fwd |-> Some([source |-> "MEM_WB", reg |-> x, value |-> MEM_WB.alu_result])]
    ELSE [val |-> v, fwd |-> None]

\* C26: the instruction in EX takes each source register x # 0 from the old
\* EX/MEM result if that latch writes x, else from the write-back value of the
\* old MEM/WB if that latch writes x, else from its decode-time value;
\* forward_a and forward_b record that source and are null when there is none.
C26_ForwardingPriority ==
    [][(StepRun /\ ID_EX.valid) =>
          /\ forward_a' = ChosenOperand(ID_EX.rs, ID_EX.rs_val).fwd
          /\ forward_b' = ChosenOperand(ID_EX.rt, ID_EX.rt_val).fwd
          /\ EX_MEM'.valid /\ EX_MEM'.pc = ID_EX.pc
          /\ EX_MEM'.rt_val = ChosenOperand(ID_EX.rt, ID_EX.rt_val).val
          /\ EX_MEM'.alu_result =
                 alu(ID_EX.alu_op, ChosenOperand(ID_EX.rs, ID_EX.rs_val).val,
                     ChosenOperand(ID_EX.rt, ID_EX.rt_val).val, ID_EX.imm,
                     ID_EX.rs_val)]_vars

\* An instruction has left EX with its rs taken from EX/MEM while the older
\* instruction retiring in the same cycle wrote another value to that register.
C26_Witness ==
    /\ EX_MEM.valid /\ reads_rs(EX_MEM.instruction)
    /\ forward_a # None /\ forward_a[1].source = "EX_MEM"
    /\ forward_a[1].reg = field_rs(EX_MEM.instruction)
    /\ MEM_WB.valid /\ MEM_WB.reg_write /\ MEM_WB.rd = forward_a[1].reg
    /\ forward_a[1].value = MEM_WB.alu_result
    /\ pipeline_history # <<>>
    /\ pipeline_history[Len(pipeline_history)].WB_instr # None
    /\ is_alu(pipeline_history[Len(pipeline_history)].WB_instr)
    /\ dest(pipeline_history[Len(pipeline_history)].WB_instr) = forward_a[1].reg
    /\ registers[forward_a[1].reg] # forward_a[1].value

\* The value a branch in decode compares for register x, in terms of the
\* latches before the cycle, the EX/MEM latch the cycle computes and the
\* register file after the cycle's write-back.
ComparedOperand(x) ==
    IF x # 0 /\ EX_MEM'.valid /\ EX_MEM'.reg_write /\ EX_MEM'.rd = x
    THEN EX_MEM'.alu_result
    ELSE IF x # 0 /\ EX_MEM.valid /\ EX_MEM.reg_write /\ EX_MEM.rd = x
    THEN EX_MEM.alu_result
    ELSE IF x # 0 /\ MEM_WB.valid /\ MEM_WB.reg_write /\ MEM_WB.rd = x
    THEN (IF MEM_WB.mem_to_reg THEN MEM_WB.mem_data ELSE MEM_WB.alu_result)
    ELSE registers'[x]

BranchInDecode == IF_ID.valid /\ is_branch(IF_ID.instruction)

\* What the cycle shows of a branch in decode that is taken, and not taken.
TakenNow ==
    /\ control_hazard' # None /\ control_hazard'[1].type = "Branch"
    /\ flush_count' = flush_count + 1
    /\ pc' = IF_ID.pc + 1 + ref_imm(IF_ID.instruction)
    /\ ~IF_ID'.valid

NotTakenNow ==
    /\ control_hazard' = None /\ flush_count' = flush_count
    /\ pc' = IF pc < Len(instruction_memory) THEN pc + 1 ELSE pc

\* C27: a BEQ/BNQ decoded without a stall compares, for each operand register
\* x # 0, the value of the first of the EX/MEM latch computed in this cycle,
\* the old EX/MEM latch and the old MEM/WB latch (write-back value) that is
\* valid, has reg_write and rd = x, else the register file; it is taken
\* exactly when the values are equal (BEQ) or different (BNQ).
C27_BranchForwarding ==
    [][(StepRun /\ BranchInDecode /\ ~StallAsserted) =>
          IF (field_opcode(IF_ID.instruction) = 6) <=>
                 (ComparedOperand(field_rs(IF_ID.instruction))
                      = ComparedOperand(field_rt(IF_ID.instruction)))
          THEN TakenNow ELSE NotTakenNow]_vars

\* A taken branch has just left decode; the instruction ahead of it produced
\* one of its operands in EX in that cycle, and the instruction ahead of that
\* one wrote another value to the same register.
C27_Witness ==
    /\ ID_EX.valid /\ is_branch(ID_EX.instruction)
    /\ control_hazard # None /\ control_hazard[1].type = "Branch"
    /\ EX_MEM.valid /\ EX_MEM.reg_write /\ EX_MEM.rd # 0
    /\ EX_MEM.rd \in {field_rs(ID_EX.instruction), field_rt(ID_EX.instruction)}
    /\ MEM_WB.valid /\ MEM_WB.reg_write /\ MEM_WB.rd = EX_MEM.rd
    /\ MEM_WB.alu_result # EX_MEM.alu_result

is_jump(h) == field_opcode(h) \in {9, 10} \/ is_jr(h)

\* The instruction in decode is neither a branch nor a jump.
PlainInDecode ==
    IF_ID.valid /\ ~is_branch(IF_ID.instruction) /\ ~is_jump(IF_ID.instruction)

\* The load-use condition between the old ID/EX latch and the instruction in
\* decode.
LoadUse ==
    /\ ID_EX.valid /\ ID_EX.mem_read /\ ID_EX.rd # 0
    /\ \/ ID_EX.rd = field_rs(IF_ID.instruction)
       \/ ID_EX.rd = field_rt(IF_ID.instruction) /\ ~is_store(IF_ID.instruction)

\* C28: for an instruction in decode that is neither a branch nor a jump a
\* stall is asserted exactly when the old ID/EX latch is a valid load with
\* rd # 0 equal to the decoded rs, or to the decoded rt of a non-store; with an
\* invalid IF/ID no stall is asserted.
C28_LoadUseStall ==
    [][StepRun =>
          /\ PlainInDecode => (StallAsserted <=> LoadUse)
          /\ PlainInDecode => (if_id_was_held' <=> LoadUse)
          /\ ~IF_ID.valid => (~StallAsserted /\ ~if_id_was_held')]_vars

\* A stall has just held an R-type instruction whose rt, and not rs, is the
\* register the load ahead of it writes.
C28_Witness ==
    /\ stall_info # None /\ if_id_was_held /\ ~ID_EX.valid
    /\ IF_ID.valid /\ is_r_alu(IF_ID.instruction)
    /\ EX_MEM.valid /\ EX_MEM.mem_read /\ EX_MEM.rd # 0
    /\ EX_MEM.rd = field_rt(IF_ID.instruction)
    /\ EX_MEM.rd # field_rs(IF_ID.instruction)

\* The old ID/EX latch writes register r # 0.
WriterInEx(r) == ID_EX.valid /\ ID_EX.reg_write /\ ID_EX.rd # 0 /\ ID_EX.rd = r

ComparedRegisters == {field_rs(IF_ID.instruction), field_rt(IF_ID.instruction)}

\* The old EX/MEM latch is a load of a register the branch in decode compares.
LoadInMemUse ==
    EX_MEM.valid /\ EX_MEM.mem_to_reg /\ EX_MEM.rd # 0 /\ EX_MEM.rd \in ComparedRegisters

\* C29 (as stated): whenever a JR or a BEQ/BNQ is in decode and the old ID/EX
\* latch is valid, has reg_write and its rd # 0 is a register the JR (rs) or
\* the branch (rs or rt) needs, a stall is asserted in that cycle.
C29_StallOnWriterInEx ==
    [][(StepRun /\ IF_ID.valid
          /\ \/ is_jr(IF_ID.instruction) /\ WriterInEx(field_rs(IF_ID.instruction))
             \/ BranchInDecode /\ \E r \in ComparedRegisters : WriterInEx(r))
         => StallAsserted]_vars

\* C29 (amended): a JR in decode is stalled whenever the old ID/EX latch
\* writes its rs; a BEQ/BNQ in decode is stalled exactly when the old ID/EX or
\* the old EX/MEM latch is a load of a register it compares, so behind a
\* writer in EX that is not a load it leaves decode without a stall.
C29_TransferStall ==
    [][(StepRun /\ IF_ID.valid) =>
          /\ (is_jr(IF_ID.instruction) /\ WriterInEx(field_rs(IF_ID.instruction))) =>
                 /\ StallAsserted /\ if_id_was_held' /\ IF_ID' = IF_ID
                 /\ ~ID_EX'.valid /\ control_hazard' = None
          /\ BranchInDecode => (StallAsserted <=> (LoadUse \/ LoadInMemUse))
          /\ (BranchInDecode /\ ~ID_EX.mem_read /\ ~LoadInMemUse) =>
                 /\ ~StallAsserted /\ ~if_id_was_held'
                 /\ ID_EX'.valid /\ ID_EX'.pc = IF_ID.pc]_vars

\* A branch has just left decode without a stall right behind an ALU
\* instruction that was in EX in that cycle and writes a register it compares.
C29_Witness ==
    /\ ID_EX.valid /\ is_branch(ID_EX.instruction) /\ stall_info = None
    /\ ~if_id_was_held
    /\ EX_MEM.valid /\ is_alu(EX_MEM.instruction) /\ EX_MEM.reg_write
    /\ EX_MEM.rd # 0 /\ EX_MEM.pc + 1 = ID_EX.pc
    /\ EX_MEM.rd \in {field_rs(ID_EX.instruction), field_rt(ID_EX.instruction)}

is_jal(h) == field_opcode(h) = 10

\* The address in instruction memory of the word a latch holds: a negative PC
\* fetches the word counted from the end.
InstructionAddress(l) == IF l.pc >= 0 THEN l.pc ELSE Len(instruction_memory) + l.pc

\* C30: a JAL at instruction address a with embedded address t sets PC to t in
\* the cycle it is decoded; when it retires it writes exactly a + 1 into
\* register 7 and changes no other register, and it changes no data memory.
C30_JalLinks ==
    [][StepRun =>
          /\ (IF_ID.valid /\ is_jal(IF_ID.instruction)) =>
                 /\ pc' = FromHex(IF_ID.instruction) % 4096
                 /\ ID_EX'.valid /\ ID_EX'.pc = IF_ID.pc
          /\ (EX_MEM.valid /\ is_jal(EX_MEM.instruction)) =>
                 data_memory' = data_memory
          /\ (MEM_WB.valid /\ is_jal(MEM_WB.instruction)) =>
                 /\ registers' = [registers EXCEPT ![7] = InstructionAddress(MEM_WB) + 1]
                 /\ data_memory' = data_memory]_vars

\* The instruction in decode is an R-type word with funct 6 or 7.
ReservedInDecode ==
    /\ IF_ID.valid /\ field_opcode(IF_ID.instruction) = 0
    /\ field_funct(IF_ID.instruction) \in {6, 7}

\* C31: decoding an R-type word whose funct is 6 or 7 produces a bubble: the
\* ID/EX latch committed for that cycle is invalid.
C31_ReservedFunctBubble == [][(StepRun /\ ReservedInDecode) => ~ID_EX'.valid]_vars

-----------------------------------------------------------------------------
(* The ALU on its own: one arithmetic or memory instruction on chosen
   register values. *)

\* Operand values at the edges of the 16-bit range and of the sign bit.
AluOperands == {0, 1, 5, 21930, 32767, 32768, 43605, 65531, 65535}

AluImmediates == {-32, -6, -1, 0, 1, 21, 31}

\* op $r3, $r1, $r2 for the five R-type operations; op $r3, $r1, i for the
\* immediate operations and LW; SW $r2, i($r1).
AluWords ==
    {R(f, 3, 1, 2) : f \in 0..4}
    \cup {I(op, 3, 1, i) : op \in {1, 3, 4, 5, 8}, i \in AluImmediates}
    \cup {I(2, 2, 1, i) : i \in AluImmediates}

\* The CPU about to fetch one instruction, with r1 = a and r2 = b.
alu_start(w, a, b) ==
    [load_program(<<w>>) EXCEPT !.registers = [@ EXCEPT ![1] = a, ![2] = b]]

AluInit ==
    /\ \E w \in AluWords : \E a \in AluOperands : \E b \in AluOperands :
           IsCpu(alu_start(w, a, b))
    /\ source = None /\ asm_error = None
    /\ calls = 0 /\ idle_calls = 0 /\ raised = FALSE /\ taken_transfers = 0

AluSpec == AluInit /\ [][StepRun]_vars

\* The sign-extended 6-bit immediate of a word, its zero-extended immediate,
\* and a 16-bit value read as two's complement.
sext(h) == IF FromHex(h) % 64 >= 32 THEN (FromHex(h) % 64) - 64 ELSE FromHex(h) % 64
zext(h) == FromHex(h) % 64
signed16(x) == IF x >= 32768 THEN x - 65536 ELSE x

\* Bitwise and, or of two naturals below 2^n, bit by bit from the top.
RECURSIVE and_bits(_, _, _)
and_bits(a, b, n) ==
    IF n = 0 THEN 0
    ELSE (IF a >= 2^(n - 1) /\ b >= 2^(n - 1) THEN 2^(n - 1) ELSE 0)
         + and_bits(a % 2^(n - 1), b % 2^(n - 1), n - 1)

RECURSIVE or_bits(_, _, _)
or_bits(a, b, n) ==
    IF n = 0 THEN 0
    ELSE (IF a >= 2^(n - 1) \/ b >= 2^(n - 1) THEN 2^(n - 1) ELSE 0)
         + or_bits(a % 2^(n - 1), b % 2^(n - 1), n - 1)

\* What the EX stage is to compute for word h on operand values a and b.
ExpectedAlu(h, a, b) ==
    CASE is_r_alu(h) /\ field_funct(h) = 0 -> (a + b) % 65536
      [] is_r_alu(h) /\ field_funct(h) = 1 -> (a - b) % 65536
      [] is_r_alu(h) /\ field_funct(h) = 2 -> and_bits(a, b, 16)
      [] is_r_alu(h) /\ field_funct(h) = 3 -> or_bits(a, b, 16)
      [] is_r_alu(h) /\ field_funct(h) = 4 ->
             IF signed16(a) < signed16(b) THEN 1 ELSE 0
      [] field_opcode(h) = 3 -> (a + sext(h)) % 65536
      [] field_opcode(h) = 4 -> (a - sext(h)) % 65536
      [] field_opcode(h) = 5 -> IF signed16(a) < sext(h) THEN 1 ELSE 0
      [] field_opcode(h) = 8 -> and_bits(a, zext(h), 16)
      [] is_load(h) \/ is_store(h) -> (a + sext(h)) % 65536

\* C32: for 16-bit operand values a, b and a 6-bit immediate i the EX stage
\* computes ADD/ADDI = a + b or a + sext(i) mod 2^16, SUB/SUBI = a - b or
\* a - sext(i) mod 2^16, AND = a & b, OR = a | b, ANDI = a & zero-extended i,
\* SLT/SLTI = 1 iff signed16(a) < signed16(b) or sext(i), else 0, and the
\* LW/SW address = a + sext(i) mod 2^16.
C32_AluResults ==
    [][(StepRun /\ ID_EX.valid) =>
          /\ ID_EX.rs_val = registers[field_rs(ID_EX.instruction)]
          /\ ID_EX.rt_val = registers[field_rt(ID_EX.instruction)]
          /\ EX_MEM'.valid /\ EX_MEM'.instruction = ID_EX.instruction
          /\ EX_MEM'.alu_result =
                 ExpectedAlu(ID_EX.instruction, ID_EX.rs_val, ID_EX.rt_val)]_vars

\* An SLT has left EX with result 1 on a first operand with the sign bit set
\* and a second operand without it.
C32_Witness ==
    /\ EX_MEM.valid /\ is_r_alu(EX_MEM.instruction)
    /\ field_funct(EX_MEM.instruction) = 4 /\ EX_MEM.alu_result = 1
    /\ registers[field_rs(EX_MEM.instruction)] >= 32768
    /\ registers[field_rt(EX_MEM.instruction)] < 32768

Word16 == 0..65535

\* C33: in every reachable state every register value, every data-memory
\* address key and every data-memory value is an integer in [0, 65535], and
\* a store in the memory stage writes at alu_result mod 2^16.
C33_SixteenBitState ==
    /\ [](/\ \A r \in DOMAIN registers : registers[r] \in Word16
          /\ \A a \in DOMAIN data_memory : a \in Word16 /\ data_memory[a] \in Word16)
    /\ [][(StepRun /\ EX_MEM.valid /\ EX_MEM.mem_write) =>
              DOMAIN data_memory' = DOMAIN data_memory \cup {EX_MEM.alu_result % 65536}]_vars

\* Register 7 holds 0xFFFF after the write-back of a JAL whose return address
\* was -1 before masking.
C33_Witness ==
    /\ instruction_memory \in WrappedCallPrograms /\ registers[7] = 65535
    /\ pipeline_history # <<>>
    /\ pipeline_history[Len(pipeline_history)].WB_instr # None
    /\ is_jal(pipeline_history[Len(pipeline_history)].WB_instr)
    /\ pipeline_history[Len(pipeline_history)].WB_PC = Some(-2)

-----------------------------------------------------------------------------
(* The assembler on branches to labels: a source with one branch at address
   a to the label L declared at address t is assembled and then run. *)

\* A line that declares a label and holds no instruction.
LabelOnly(name) ==
    [label |-> Some(name), instruction |-> None, operands |-> <<>>, blank |-> FALSE]

\* The instruction at address k of a label source of case c.
label_source_instruction(c, k) ==
    IF k = c.a
    THEN <<c.mn, IF c.mn = "BEQ" THEN <<Reg(0), Reg(0), Id("L")>>
                 ELSE <<Reg(1), Reg(0), Id("L")>>>>
    ELSE IF c.jump /\ k = 1 THEN <<"JUMP", <<Id("BR")>>>>
    ELSE <<"ADDI", <<Reg(1), Reg(0), Num(1)>>>>

label_source_label(c, k) ==
    IF k = c.t THEN Some("L") ELSE IF c.jump /\ k = c.a THEN Some("BR") ELSE None

\* n instructions, ADDI $r1,$r0,1 everywhere but: the branch BEQ $r0,$r0,L or
\* BNQ $r1,$r0,L at address a; JUMP BR at address 1 with BR the branch, if the
\* case has a jump; L declared at address t, on a line of its own if t = n.
LabelSource(c) ==
    [i \in 1..c.n |->
        [label |-> label_source_label(c, i - 1),
         instruction |-> Some(label_source_instruction(c, i - 1)[1]),
         operands |-> label_source_instruction(c, i - 1)[2], blank |-> FALSE]]
    \o (IF c.t = c.n THEN <<LabelOnly("L")>> ELSE <<>>)

\* Branches and labels next to each other in every order, and the largest
\* offsets in both directions with the first offsets beyond them.
LabelCases ==
    {[n |-> 4, a |-> a, t |-> t, mn |-> mn, jump |-> FALSE] :
        a \in 0..3, t \in 0..4, mn \in {"BEQ", "BNQ"}}
    \cup {[n |-> 34, a |-> a, t |-> t, mn |-> mn, jump |-> FALSE] :
             a \in {0, 1, 2}, t \in {33, 34}, mn \in {"BEQ", "BNQ"}}
    \cup {[n |-> 36, a |-> a, t |-> t, mn |-> mn, jump |-> TRUE] :
             a \in {34, 35}, t \in {2, 3}, mn \in {"BEQ", "BNQ"}}

LabelSources == {LabelSource(c) : c \in LabelCases}

\* The page holds a source text and a fresh CPU.
AsmInit ==
    /\ \E src \in LabelSources : source = Some(src)
    /\ asm_error = None /\ IsCpu(reset_cpu)
    /\ calls = 0 /\ idle_calls = 0 /\ raised = FALSE /\ taken_transfers = 0

\* views.assemble_code on the source text of the page.
AssembleSource ==
    /\ source # None /\ asm_error = None
    /\ instruction_memory = <<>> /\ calls = 0
    /\ asm_error' = error_response(assemble_code(source[1]))
    /\ Becomes(load_program(assemble_code(source[1]).machine_codes))
    /\ UNCHANGED <<source, calls, idle_calls, raised, taken_transfers>>

AsmNext == AssembleSource \/ StepRun

AsmSpec == AsmInit /\ [][AsmNext]_vars

\* The address of line i of a source: the instructions in front of it.
RECURSIVE InstructionsBefore(_, _)
InstructionsBefore(src, i) ==
    IF i <= 1 THEN 0
    ELSE InstructionsBefore(src, i - 1)
         + (IF src[i - 1].instruction # None THEN 1 ELSE 0)

\* The lines of a source that hold a BEQ/BNQ whose third operand is a label
\* declared in the source, and the address that label is declared at.
LabelBranches(src) ==
    {i \in 1..Len(src) :
        /\ src[i].instruction \in {Some("BEQ"), Some("BNQ")}
        /\ Len(src[i].operands) = 3 /\ src[i].operands[3][1] = "id"
        /\ \E j \in 1..Len(src) : src[j].label = Some(src[i].operands[3][2])}

DeclaredAt(src, i) ==
    InstructionsBefore(src, CHOOSE j \in 1..Len(src) :
                                src[j].label = Some(src[i].operands[3][2]))

LabelDistance(src, i) == DeclaredAt(src, i) - (InstructionsBefore(src, i) + 1)

\* C34: a BEQ/BNQ at address a whose third operand is a label declared at
\* address t, before or after it, with t - (a + 1) in [-32, 31], is encoded
\* with a 6-bit immediate that sign-extends to t - (a + 1), and when the CPU
\* takes the branch its target a + 1 + imm is t.
C34_LabelOffsets ==
    /\ []((source # None /\ (instruction_memory # <<>> \/ asm_error # None)) =>
            \A i \in LabelBranches(source[1]) :
                LabelDistance(source[1], i) \in -32..31 =>
                    /\ asm_error = None
                    /\ sext(instruction_memory[InstructionsBefore(source[1], i) + 1])
                           = LabelDistance(source[1], i)
                    /\ is_branch(instruction_memory[InstructionsBefore(source[1], i) + 1]))
    /\ [][(StepRun /\ source # None /\ BranchInDecode /\ ~StallAsserted
              /\ control_hazard' # None) =>
             \A i \in LabelBranches(source[1]) :
                 InstructionsBefore(source[1], i) = IF_ID.pc =>
                     pc' = DeclaredAt(source[1], i)]_vars

\* A branch assembled with the offset -32 has just been taken: PC is the
\* address of its label, 32 words in front of the instruction behind it.
C34_Witness ==
    /\ source # None /\ asm_error = None
    /\ ID_EX.valid /\ is_branch(ID_EX.instruction) /\ sext(ID_EX.instruction) = -32
    /\ control_hazard # None /\ pc = ID_EX.pc + 1 - 32
    /\ \E i \in LabelBranches(source[1]) :
           /\ InstructionsBefore(source[1], i) = ID_EX.pc
           /\ DeclaredAt(source[1], i) = pc

\* The records of pipeline_history that show the pair (p, h) in IF, and in WB.
ShownInIF(p, h) ==
    {k \in 1..Len(pipeline_history) :
        pipeline_history[k].IF_PC = Some(p) /\ pipeline_history[k].IF_instr = h}

ShownInWB(p, h) ==
    {k \in 1..Len(pipeline_history) :
        pipeline_history[k].WB_PC = Some(p) /\ pipeline_history[k].WB_instr = h}

\* C35: across pipeline_history every (PC, word) pair is the IF entry of at
\* most one record and the WB entry of at most one record, also when a stall
\* holds the instruction in IF/ID for one or two cycles.
C35_ShownOnce ==
    \A k \in 1..Len(pipeline_history) :
        /\ pipeline_history[k].IF_PC # None =>
               ShownInIF(pipeline_history[k].IF_PC[1], pipeline_history[k].IF_instr) = {k}
        /\ pipeline_history[k].WB_PC # None =>
               ShownInWB(pipeline_history[k].WB_PC[1], pipeline_history[k].WB_instr) = {k}

\* A stall has just held an instruction in IF/ID: the last record shows
\* nothing in IF and an earlier record shows the held pair.
C35_Witness ==
    /\ if_id_was_held /\ IF_ID.valid /\ stall_info # None
    /\ pipeline_history # <<>>
    /\ pipeline_history[Len(pipeline_history)].IF_instr = None
    /\ ShownInIF(IF_ID.pc, IF_ID.instruction) # {}
    /\ \E k \in 1..Len(pipeline_history) : pipeline_history[k].WB_PC # None

\* step() on the CPU c would run a cycle, and that cycle would be a stall.
can_step(c) == ~c.halted /\ ~fetch_raises(c)

would_stall(c) == can_step(c) /\ step(c).if_id_was_held

\* The cycle from c to d moves the instruction in IF/ID into ID/EX.
leaves_decode(c, d) ==
    /\ ~d.if_id_was_held
    /\ d.ID_EX.valid /\ d.ID_EX.pc = c.IF_ID.pc
    /\ d.ID_EX.instruction = c.IF_ID.instruction

\* C36: no program produces more than two consecutive stall cycles: after a
\* stall in cycle c (if_id_was_held is set) and a stall in cycle c + 1 (the
\* next step() stalls), cycle c + 2 is not a stall and moves the held
\* instruction out of decode, its third cycle there.
C36_AtMostTwoStalls ==
    (if_id_was_held /\ would_stall(Self) /\ can_step(step(Self))) =>
        /\ step(Self).IF_ID = IF_ID
        /\ ~would_stall(step(Self))
        /\ leaves_decode(step(Self), step(step(Self)))

\* Two stall cycles in a row have passed: the load the branch in IF/ID waits
\* for has moved from EX to write-back behind two bubbles, and the next
\* cycle moves the branch on.
C36_Witness ==
    /\ if_id_was_held /\ IF_ID.valid /\ is_branch(IF_ID.instruction)
    /\ ~ID_EX.valid /\ ~EX_MEM.valid /\ MEM_WB.valid /\ is_load(MEM_WB.instruction)
    /\ Len(stall_history) >= 2
    /\ stall_history[Len(stall_history)] = cycle
    /\ stall_history[Len(stall_history) - 1] = cycle - 1
    /\ ~would_stall(Self) /\ leaves_decode(Self, step(Self))

-----------------------------------------------------------------------------
(* Programs that only move forward, stepped until they halt. *)

MaxForwardLen == 3

ForwardAlphabet ==
    { I(3, 1, 0, 5),      \* ADDI $r1, $r0, 5
      I(1, 1, 0, 1),      \* LW   $r1, 1($r0)
      I(1, 2, 1, 0),      \* LW   $r2, 0($r1)
      I(2, 2, 1, 0),      \* SW   $r2, 0($r1)
      B(6, 0, 0, 0),      \* BEQ  $r0, $r0, 0
      B(6, 1, 0, 1),      \* BEQ  $r1, $r0, 1
      B(7, 1, 2, 2),      \* BNQ  $r1, $r2, 2
      B(7, 1, 2, -1),     \* BNQ  $r1, $r2, -1
      J(9, 1),            \* JUMP 1
      J(9, 2),            \* JUMP 2
      J(10, 5),           \* JAL  5
      R(5, 0, 7, 0),      \* JR   $r7
      R(6, 1, 1, 1) }     \* opcode 0000, funct 110

RECURSIVE WordsOfLen(_)
WordsOfLen(n) ==
    IF n = 0 THEN {<<>>}
    ELSE {Append(p, w) : p \in WordsOfLen(n - 1), w \in ForwardAlphabet}

\* No JR, no branch with a negative offset, no JUMP/JAL to its own address or
\* to one before it.
forward_only(p) ==
    \A i \in 1..Len(p) :
        /\ ~is_jr(p[i])
        /\ is_branch(p[i]) => sext(p[i]) >= 0
        /\ field_opcode(p[i]) \in {9, 10} => FromHex(p[i]) % 4096 > i - 1

ForwardPrograms ==
    {p \in UNION {WordsOfLen(n) : n \in 0..MaxForwardLen} : forward_only(p)}

ForwardInit ==
    /\ \E p \in ForwardPrograms : IsCpu(load_program(p))
    /\ source = None /\ asm_error = None
    /\ calls = 0 /\ idle_calls = 0 /\ raised = FALSE /\ taken_transfers = 0

ForwardNext == StepRun \/ StepHalted

\* The steps of StepRun, told by the cycle counter: the only steps of
\* ForwardNext that are taken on a running CPU and count a cycle.
CycleRun ==
    /\ asm_error = None /\ ~halted /\ ~fetch_raises(Self) /\ cycle < MaxCycle
    /\ cycle' = cycle + 1

\* The caller goes on calling step() while it returns True: a running CPU
\* does not stay for ever in front of a cycle it can run.
ForwardSpec == ForwardInit /\ [][ForwardNext]_vars /\ WF_cycle(CycleRun)

\* C37: every program with no JR, with every BEQ/BNQ offset >= 0 and every
\* JUMP/JAL address greater than the jump's own address reaches halted after
\* finitely many step() calls, none of which raises.
C37_ForwardProgramsHalt ==
    /\ [](forward_only(instruction_memory) /\ ~fetch_raises(Self))
    /\ <>halted

\* A forward program has halted after a stall and a taken transfer, with PC
\* past the end of the program.
C37_Witness ==
    /\ halted /\ forward_only(instruction_memory)
    /\ flush_count > 0 /\ stall_history # <<>>
    /\ pc > Len(instruction_memory) /\ Len(instruction_memory) = MaxForwardLen

\* The latch q holds the instruction of the valid latch p.
SameInstruction(p, q) == q.valid /\ q.pc = p.pc /\ q.instruction = p.instruction

\* C38: stalls and flushes act only on IF/ID and ID/EX: in every cycle, stalled
\* or flushed or neither, a valid ID/EX moves to EX/MEM and a valid EX/MEM
\* moves to MEM/WB with the same pc and word, so an instruction valid in ID/EX
\* after cycle c is in EX/MEM after cycle c + 1 and in MEM/WB after c + 2.
C38_LatchesAdvance ==
    [][StepRun =>
          /\ ID_EX.valid => SameInstruction(ID_EX, EX_MEM')
          /\ EX_MEM.valid => SameInstruction(EX_MEM, MEM_WB')
          /\ ~ID_EX.valid => ~EX_MEM'.valid
          /\ ~EX_MEM.valid => ~MEM_WB'.valid]_vars

\* A transfer was taken in the cycle after a stall: the branch or jump is in
\* ID/EX, the bubble of the stall is in EX/MEM, and the instruction it waited
\* for has moved on into MEM/WB through the stall and the flush.
C38_Witness ==
    /\ control_hazard # None /\ flush_occurred
    /\ ID_EX.valid /\ (is_branch(ID_EX.instruction) \/ is_jump(ID_EX.instruction))
    /\ ~EX_MEM.valid /\ MEM_WB.valid /\ MEM_WB.pc = ID_EX.pc - 1
    /\ stall_history # <<>> /\ stall_history[Len(stall_history)] = cycle - 1

\* C39: once halted is set it stays set: every step() on a halted CPU returns
\* False and leaves PC, cycle, registers, data memory, the four latches, the
\* histories, flush_count and the per-cycle records, as every other field of
\* the CPU, unchanged.
C39_HaltedFrame ==
    [][(halted /\ calls' > calls) =>
          (/\ ~step_returns(Self)
           /\ halted'
           /\ Self' = Self)]_vars

\* step() has been called on a CPU that halted after running a program with a
\* stall, a flush and a store.
C39_Witness ==
    /\ halted /\ idle_calls > 0 /\ ~raised
    /\ cycle > 0 /\ flush_count > 0 /\ stall_history # <<>>
    /\ data_memory # <<>> /\ pc > Len(instruction_memory)

\* C14: for every valid instruction, if w is the word the assembler emits,
\* then assembling disassemble(w) as a one-line program emits w again.
C14_DisassembleRoundTrip ==
    [][(AssembleDisassembly /\ source # None) =>
           (asm_error' = None /\ instruction_memory' = instruction_memory)]_vars

\* "LW $r5, $r3, -32" was assembled, and its disassembly "LW $r5, -32($r3)",
\* in the other operand form, has been assembled in turn to the same word.
C14_Witness ==
    /\ source = Some(<<ImmLine("LW()", 5, 3, -32)>>)
    /\ asm_error = None
    /\ instruction_memory = assemble(<<ImmLine("LW", 5, 3, -32)>>).machine_codes
    /\ disassemble_text(instruction_memory[1]) =
           <<"LW", " ", "$", "r", "5", ",", " ", "-", "3", "2", "(", "$", "r", "3", ")">>

====
